---------------------------- MODULE Spec2Model ----------------------------
(***************************************************************************)
(* A model of the GBLator Game Boy core: the bank-switching bus (Memory),  *)
(* the Timer, the PPU timing state machine, the Joypad latch and the CPU.  *)
(* Every operator is a translation of the C++ it names; byte vectors are   *)
(* kept as sparse maps (a missing key is the zero the code fills in).      *)
(***************************************************************************)
EXTENDS Integers, Sequences, FiniteSets, TLC

VARIABLES mem, timer, ppu, joypad, cpu, last, steps, trapped, hist

vars == <<mem, timer, ppu, joypad, cpu, last, steps, trapped, hist>>

(***************************************************************************)
(* Fixed-width arithmetic.                                                 *)
(***************************************************************************)
U8(x) == x % 256

U16(x) == x % 65536

Bit(x, k) == (x \div (2 ^ k)) % 2

RECURSIVE BitAnd(_, _)
BitAnd(x, y) ==
  IF x = 0 \/ y = 0 THEN 0
  ELSE (x % 2) * (y % 2) + 2 * BitAnd(x \div 2, y \div 2)

RECURSIVE BitOr(_, _)
BitOr(x, y) ==
  IF x = 0 THEN y
  ELSE IF y = 0 THEN x
  ELSE (IF (x % 2) + (y % 2) > 0 THEN 1 ELSE 0) + 2 * BitOr(x \div 2, y \div 2)

RECURSIVE BitXor(_, _)
BitXor(x, y) ==
  IF x = 0 THEN y
  ELSE IF y = 0 THEN x
  ELSE ((x + y) % 2) + 2 * BitXor(x \div 2, y \div 2)

\* TRUE of every value: a loop written as a recursion tests it on its state
\* so that each iteration is evaluated before the next one starts.
Evaluated(x) == x = x

(***************************************************************************)
(* Zero-initialised byte vectors, kept sparse: only non-zero cells are     *)
(* stored, so that equal vectors are equal maps.                           *)
(***************************************************************************)
Zeroes == [k \in {} |-> 0]

Get(f, k) == IF k \in DOMAIN f THEN f[k] ELSE 0

PutLowSeven(f, k, v) ==
  IF v % 128 = 0 THEN [x \in (DOMAIN f) \ {k} |-> f[x]]
  ELSE [x \in (DOMAIN f) \cup {k} |-> IF x = k THEN v % 128 ELSE f[x]]

Put(f, k, v) ==
  IF v = 0 THEN [x \in (DOMAIN f) \ {k} |-> f[x]]
  ELSE [x \in (DOMAIN f) \cup {k} |-> IF x = k THEN v ELSE f[x]]

(***************************************************************************)
(* ROM images.  An image is given by its length in bytes, the three header *)
(* bytes the loader reads, and the bytes of a program placed at 0x0100;    *)
(* every other byte is a fill that differs from bank to bank and from      *)
(* offset to offset (0x10 + bank + offset-in-bank, as in                   *)
(* test_memory_bank_switch, where bank i is filled with 0x10 + i).         *)
(***************************************************************************)
BankSize == 16384

RomByte(img, off) ==
  IF off = 327 THEN img.type
  ELSE IF off = 328 THEN img.romCode
  ELSE IF off = 329 THEN img.ramCode
  ELSE IF off >= 256 /\ off < 256 + Len(img.prog) THEN img.prog[off - 255]
  ELSE U8(16 + (off \div BankSize) + (off % BankSize))

NoImage == [size |-> 0, type |-> 0, romCode |-> 0, ramCode |-> 0, prog |-> <<>>]

(***************************************************************************)
(* Memory: the bank-switching bus.                                         *)
(***************************************************************************)
MemoryCtor ==
  [romData |-> NoImage,
   eram |-> Zeroes, eramSize |-> 0,
   wram |-> Zeroes, vram0 |-> Zeroes, vram1 |-> Zeroes,
   oam |-> Zeroes, ioRegisters |-> Zeroes, hram |-> Zeroes,
   ieRegister |-> 0,
   romBankLow |-> 1, romBankHigh |-> 0, bankingMode |-> 0,
   ramEnabled |-> FALSE, vramBank |-> 0, wramBank |-> 1,
   cartType |-> 0, numRomBanks |-> 0, numRamBanks |-> 0]

MemoryResetKeepsEram(m) ==
  [m EXCEPT !.wram = Zeroes, !.vram0 = Zeroes,
            !.vram1 = Zeroes, !.oam = Zeroes, !.ioRegisters = Zeroes,
            !.hram = Zeroes, !.ieRegister = 0,
            !.romBankLow = 1, !.romBankHigh = 0, !.bankingMode = 0,
            !.ramEnabled = FALSE, !.vramBank = 0, !.wramBank = 1]

MemoryReset(m) ==
  [m EXCEPT !.eram = Zeroes, !.wram = Zeroes, !.vram0 = Zeroes,
            !.vram1 = Zeroes, !.oam = Zeroes, !.ioRegisters = Zeroes,
            !.hram = Zeroes, !.ieRegister = 0,
            !.romBankLow = 1, !.romBankHigh = 0, !.bankingMode = 0,
            !.ramEnabled = FALSE, !.vramBank = 0, !.wramBank = 1]

RomBanksForCode(code, size) ==
  CASE code = 0 -> 2
    [] code = 1 -> 4
    [] code = 2 -> 8
    [] code = 3 -> 16
    [] code = 4 -> 32
    [] code = 5 -> 64
    [] code = 6 -> 128
    [] code = 7 -> 256
    [] code = 8 -> 512
    [] code = 82 -> 72
    [] code = 83 -> 80
    [] code = 84 -> 96
    [] OTHER -> size \div BankSize

RamBanksForCodeLastTwoSwapped(code) ==
  CASE code = 2 -> 1
    [] code = 3 -> 4
    [] code = 4 -> 8
    [] code = 5 -> 16
    [] OTHER -> 0

RamBanksForCode(code) ==
  CASE code = 2 -> 1
    [] code = 3 -> 4
    [] code = 4 -> 16
    [] code = 5 -> 8
    [] OTHER -> 0

AtLeastOne(n) == IF n = 0 THEN 1 ELSE n

\* loadROM of a file that opened and holds the image img (size > 0).
LoadImage(m, img) ==
  LET hdr == img.size >= 336
      banks == IF hdr THEN AtLeastOne(RomBanksForCode(RomByte(img, 328), img.size))
               ELSE AtLeastOne(img.size \div BankSize)
      rams == IF hdr THEN RamBanksForCode(RomByte(img, 329)) ELSE 0
      m1 == [m EXCEPT !.romData = img,
                      !.cartType = IF hdr THEN RomByte(img, 327) ELSE 0,
                      !.numRomBanks = banks,
                      !.numRamBanks = rams,
                      !.eramSize = rams * 8192]
  IN MemoryReset(m1)

\* The divisor of `bank %= static_cast<uint8_t>(numRomBanks_)`.
RomBankDivisor(m) == U8(m.numRomBanks)

\* currentROMBank where the modulo is defined; u is what an undefined
\* `bank % 0` yields when it yields a value at all.
CurrentROMBankU(m, u) ==
  LET bank0 == U8(m.romBankHigh * 32 + (m.romBankLow % 32))
      bank1 == IF bank0 = 0 /\ m.numRomBanks > 1 THEN 1 ELSE bank0
  IN IF RomBankDivisor(m) = 0 THEN u ELSE bank1 % RomBankDivisor(m)

\* A RAM bank that follows bank-high in either banking mode.
CurrentRAMBankIgnoresMode(m) ==
  IF m.numRamBanks = 0 THEN 0
  ELSE (m.romBankHigh % 4) % U8(m.numRamBanks)

CurrentRAMBank(m) ==
  IF m.bankingMode = 0 THEN 0
  ELSE IF m.numRamBanks = 0 THEN 0
  ELSE (m.romBankHigh % 4) % U8(m.numRamBanks)

WramBankOf(m) == (IF m.wramBank = 0 THEN 1 ELSE m.wramBank) % 8

EchoTargetOneBank(address) == address - 4096

\* The address an echo-RAM address (0xE000-0xFDFF) is redirected to.
EchoTarget(address) == address - 8192

\* What a read of the unusable area 0xFEA0-0xFEFF returns.
UnusableByteLowAddress(address) == address % 256

UnusableByte(address) == 255

RECURSIVE ReadByteU(_, _, _)
ReadByteU(m, a, u) ==
  LET address == U16(a) IN
  IF address < 16384 THEN
    (IF address < m.romData.size THEN RomByte(m.romData, address) ELSE 255)
  ELSE IF address < 32768 THEN
    (LET offset == CurrentROMBankU(m, u) * 16384 + (address - 16384)
     IN IF offset < m.romData.size THEN RomByte(m.romData, offset) ELSE 255)
  ELSE IF address < 40960 THEN
    (IF m.vramBank = 0 THEN Get(m.vram0, address - 32768)
     ELSE Get(m.vram1, address - 32768))
  ELSE IF address < 49152 THEN
    (IF m.numRamBanks = 0 \/ ~m.ramEnabled THEN 255
     ELSE LET offset == CurrentRAMBank(m) * 8192 + (address - 40960)
          IN IF offset < m.eramSize THEN Get(m.eram, offset) ELSE 255)
  ELSE IF address < 53248 THEN Get(m.wram, address - 49152)
  ELSE IF address < 57344 THEN
    Get(m.wram, WramBankOf(m) * 4096 + (address - 53248))
  ELSE IF address < 65024 THEN ReadByteU(m, EchoTarget(address), u)
  ELSE IF address < 65184 THEN Get(m.oam, address - 65024)
  ELSE IF address < 65280 THEN UnusableByte(address)
  ELSE IF address < 65408 THEN
    (IF address = 65359 THEN BitOr(254, m.vramBank % 2)
     ELSE IF address = 65392 THEN BitOr(248, m.wramBank % 8)
     ELSE Get(m.ioRegisters, address - 65280))
  ELSE IF address < 65535 THEN Get(m.hram, address - 65408)
  ELSE m.ieRegister

\* Whether readByte(a) runs into the undefined `bank % 0`.
ReadUndefined(m, a) ==
  LET address == U16(a) IN
  address >= 16384 /\ address < 32768 /\ RomBankDivisor(m) = 0

\* readByte where it is defined (every use below is of such a read).
ReadByte(m, a) == ReadByteU(m, a, 0)

IsMBC1OrRomOnly(m) == m.cartType \in {0, 1, 2, 3}

IsMBC1(m) == m.cartType \in {1, 2, 3}

ResetDIVLeavesDIV(m) == m

ResetDIV(m) == [m EXCEPT !.ioRegisters = Put(@, 4, 0)]

IncrementDIV(m) == [m EXCEPT !.ioRegisters = Put(@, 4, U8(Get(@, 4) + 1))]

\* Iterations i .. i + n - 1 of the DMA loop; the run is split in halves to
\* keep the evaluation shallow.
RECURSIVE DmaCopyUpTo(_, _, _, _)
DmaCopyUpTo(m, source, i, n) ==
  IF n <= 0 THEN m
  ELSE IF n = 1
  THEN [m EXCEPT !.oam = Put(@, i, ReadByte(m, U16(source + i)))]
  ELSE LET m1 == DmaCopyUpTo(m, source, i, n \div 2)
       IN IF Evaluated(m1)
          THEN DmaCopyUpTo(m1, source, i + (n \div 2), n - (n \div 2))
          ELSE m1

DmaCopyOneByteShort(m, source, i) == DmaCopyUpTo(m, source, i, 159 - i)

\* for (i = 0; i < 0xA0; ++i) oam_[i] = readByte(source + i), from index i.
DmaCopy(m, source, i) == DmaCopyUpTo(m, source, i, 160 - i)

\* A bank-number write that stores the five bits as they are.
RomBankLowForKeepsZero(value) == value % 32

\* The value a write to 0x2000-0x3FFF leaves in romBankLow_.
RomBankLowFor(value) == IF value % 32 = 0 THEN 1 ELSE value % 32

\* A RAM-enable write that compares the whole byte with 0x0A.
RamEnableForWholeByte(value) == value = 10

\* The value a write to 0x0000-0x1FFF leaves in ramEnabled_.
RamEnableFor(value) == value % 16 = 10

RECURSIVE WriteByte(_, _, _)
WriteByte(m, a, val) ==
  LET address == U16(a)
      value == U8(val)
  IN
  IF address < 8192 THEN
    (IF IsMBC1(m) THEN [m EXCEPT !.ramEnabled = RamEnableFor(value)] ELSE m)
  ELSE IF address < 16384 THEN
    (IF IsMBC1(m) THEN [m EXCEPT !.romBankLow = RomBankLowFor(value)] ELSE m)
  ELSE IF address < 24576 THEN
    (IF IsMBC1(m) THEN [m EXCEPT !.romBankHigh = value % 4] ELSE m)
  ELSE IF address < 32768 THEN
    (IF IsMBC1(m) THEN [m EXCEPT !.bankingMode = value % 2] ELSE m)
  ELSE IF address < 40960 THEN
    (IF m.vramBank = 0 THEN [m EXCEPT !.vram0 = Put(@, address - 32768, value)]
     ELSE [m EXCEPT !.vram1 = Put(@, address - 32768, value)])
  ELSE IF address < 49152 THEN
    (IF m.numRamBanks # 0 /\ m.ramEnabled
     THEN LET offset == CurrentRAMBank(m) * 8192 + (address - 40960)
          IN IF offset < m.eramSize THEN [m EXCEPT !.eram = Put(@, offset, value)]
             ELSE m
     ELSE m)
  ELSE IF address < 53248 THEN [m EXCEPT !.wram = Put(@, address - 49152, value)]
  ELSE IF address < 57344 THEN
    [m EXCEPT !.wram = Put(@, WramBankOf(m) * 4096 + (address - 53248), value)]
  ELSE IF address < 65024 THEN WriteByte(m, EchoTarget(address), value)
  ELSE IF address < 65184 THEN [m EXCEPT !.oam = Put(@, address - 65024, value)]
  ELSE IF address < 65280 THEN m
  ELSE IF address < 65408 THEN
    (LET index == address - 65280 IN
     IF address = 65284 THEN ResetDIV(m)
     ELSE IF address = 65350 THEN
       [DmaCopy(m, value * 256, 0) EXCEPT !.ioRegisters = Put(@, index, value)]
     ELSE IF address = 65359 THEN
       [m EXCEPT !.vramBank = value % 2, !.ioRegisters = Put(@, index, value)]
     ELSE IF address = 65392 THEN
       [m EXCEPT !.wramBank = IF value % 8 = 0 THEN 1 ELSE value % 8,
                 !.ioRegisters = Put(@, index, value)]
     ELSE [m EXCEPT !.ioRegisters = Put(@, index, value)])
  ELSE IF address < 65535 THEN [m EXCEPT !.hram = Put(@, address - 65408, value)]
  ELSE [m EXCEPT !.ieRegister = value]


\* A file path: whether it opens, and the image it holds.
File(img) == [opens |-> TRUE, image |-> img]

NoFile == [opens |-> FALSE, image |-> NoImage]

LoadROM(m, file) ==
  IF ~file.opens THEN m
  ELSE IF file.image.size = 0 THEN [m EXCEPT !.romData = file.image]
  ELSE LoadImage(m, file.image)

LoadROMResult(file) == file.opens /\ file.image.size # 0

(***************************************************************************)
(* Timer.                                                                  *)
(***************************************************************************)
TimerCtor == [divCounter |-> 0, timaCounter |-> 0]

\* Timer::reset: the counters, then four writes through the bus.
TimerResetMem(m) ==
  WriteByte(WriteByte(WriteByte(WriteByte(m, 65284, 0), 65285, 0), 65286, 0),
            65287, 0)

\* A period table with the 16- and 64-cycle entries exchanged.
TimerPeriodSwapped(m) ==
  LET tac == ReadByte(m, 65287) IN
  IF Bit(tac, 2) = 0 THEN 0
  ELSE CASE tac % 4 = 0 -> 1024
         [] tac % 4 = 1 -> 64
         [] tac % 4 = 2 -> 16
         [] OTHER -> 256

TimerPeriod(m) ==
  LET tac == ReadByte(m, 65287) IN
  IF Bit(tac, 2) = 0 THEN 0
  ELSE CASE tac % 4 = 0 -> 1024
         [] tac % 4 = 1 -> 16
         [] tac % 4 = 2 -> 64
         [] OTHER -> 256

\* The divider loop of Timer::step: <<memory, divCounter>> after it.
RECURSIVE DivLoop(_, _)
DivLoop(m, divCounter) ==
  IF divCounter >= 256
  THEN LET m1 == WriteByte(m, 65284, U8(ReadByte(m, 65284) + 1))
       IN IF Evaluated(m1) THEN DivLoop(m1, divCounter - 256) ELSE <<m1, 0>>
  ELSE <<m, divCounter>>

\* An overflow that stores the timer's bit as the whole IF byte.
TimaTickOverwritesIF(m) ==
  LET tima == ReadByte(m, 65285) IN
  IF tima = 255
  THEN WriteByte(WriteByte(m, 65285, ReadByte(m, 65286)), 65295, 4)
  ELSE WriteByte(m, 65285, U8(tima + 1))

\* One pass of the TIMA loop body.
TimaTick(m) ==
  LET tima == ReadByte(m, 65285) IN
  IF tima = 255
  THEN LET m1 == WriteByte(m, 65285, ReadByte(m, 65286))
       IN WriteByte(m1, 65295, BitOr(ReadByte(m1, 65295), 4))
  ELSE WriteByte(m, 65285, U8(tima + 1))

\* A TIMA update that ticks at most once per call.
TimaLoopSingleTick(m, timaCounter, period) ==
  IF timaCounter >= period
  THEN <<TimaTick(m), timaCounter - period>>
  ELSE <<m, timaCounter>>

\* The TIMA loop of Timer::step: <<memory, timaCounter>> after it.
RECURSIVE TimaLoop(_, _, _)
TimaLoop(m, timaCounter, period) ==
  IF timaCounter >= period
  THEN LET m1 == TimaTick(m)
       IN IF Evaluated(m1) THEN TimaLoop(m1, timaCounter - period, period)
          ELSE <<m1, 0>>
  ELSE <<m, timaCounter>>

\* A step whose TIMA accumulator also counts while the timer is disabled.
TimerStepResultCountsDisabled(m, t, cycles) ==
  LET d == DivLoop(m, t.divCounter + cycles)
      period == TimerPeriod(d[1])
  IN IF period > 0
     THEN LET r == TimaLoop(d[1], t.timaCounter + cycles, period)
          IN <<r[1], [divCounter |-> d[2], timaCounter |-> r[2]]>>
     ELSE <<d[1], [divCounter |-> d[2], timaCounter |-> t.timaCounter + cycles]>>

\* Timer::step(cycles): <<memory, timer>> after it.
TimerStepResult(m, t, cycles) ==
  LET d == DivLoop(m, t.divCounter + cycles)
      period == TimerPeriod(d[1])
  IN IF period > 0
     THEN LET r == TimaLoop(d[1], t.timaCounter + cycles, period)
          IN <<r[1], [divCounter |-> d[2], timaCounter |-> r[2]]>>
     ELSE <<d[1], [divCounter |-> d[2], timaCounter |-> t.timaCounter]>>

(***************************************************************************)
(* The other subsystems as constructed.                                    *)
(***************************************************************************)
PPUCtor == [dotCounter |-> 0, ly |-> 0, mode |-> 2, vblankTriggered |-> FALSE]

JoypadCtor == [buttonState |-> 0]

CPUReset ==
  [a |-> 0, f |-> 0, b |-> 0, c |-> 0, d |-> 0, e |-> 0, h |-> 0, l |-> 0,
   sp |-> 65534, pc |-> 256]

Constructed ==
  /\ mem = MemoryCtor
  /\ timer = TimerCtor
  /\ ppu = PPUCtor
  /\ joypad = JoypadCtor
  /\ cpu = CPUReset
  /\ last = [op |-> "init"]
  /\ steps = 0
  /\ trapped = FALSE
  /\ hist = [elapsed |-> 0, ime |-> FALSE, enabling |-> FALSE, halted |-> FALSE]

(***************************************************************************)
(* The timer on the bus: Timer::reset, Timer::step and CPU writes to the   *)
(* timer registers and IF, as in test_timer.                               *)
(***************************************************************************)
MaxTimerOps == 4

TimerCycles == {4, 16, 160, 256, 1024}

TimerWrites ==
  {<<65284, 85>>,
   <<65285, 254>>, <<65285, 255>>,
   <<65286, 0>>, <<65286, 253>>,
   <<65287, 0>>, <<65287, 4>>, <<65287, 5>>, <<65287, 6>>, <<65287, 7>>,
   <<65295, 0>>, <<65295, 27>>}

TimerReset ==
  /\ steps < MaxTimerOps
  /\ timer' = TimerCtor
  /\ mem' = TimerResetMem(mem)
  /\ last' = [op |-> "timerReset"]
  /\ steps' = steps + 1
  /\ UNCHANGED <<ppu, joypad, cpu, trapped, hist>>

TimerStep(cycles) ==
  /\ steps < MaxTimerOps
  /\ LET r == TimerStepResult(mem, timer, cycles)
     IN mem' = r[1] /\ timer' = r[2]
  /\ last' = [op |-> "timerStep", cycles |-> cycles]
  /\ steps' = steps + 1
  /\ UNCHANGED <<ppu, joypad, cpu, trapped, hist>>

TimerBusWrite(w) ==
  /\ steps < MaxTimerOps
  /\ mem' = WriteByte(mem, w[1], w[2])
  /\ last' = [op |-> "write", addr |-> w[1], val |-> w[2]]
  /\ steps' = steps + 1
  /\ UNCHANGED <<timer, ppu, joypad, cpu, trapped, hist>>

NextTimer ==
  \/ TimerReset
  \/ \E c \in TimerCycles : TimerStep(c)
  \/ \E w \in TimerWrites : TimerBusWrite(w)

SpecTimer == Constructed /\ [][NextTimer]_vars

DIV == ReadByte(mem, 65284)

TIMA == ReadByte(mem, 65285)

TMA == ReadByte(mem, 65286)

TAC == ReadByte(mem, 65287)

IFlags == ReadByte(mem, 65295)

\* C1: on the bank-switching bus every Timer::step(c) advances the byte read
\* at 0xFF04 by floor((leftover accumulator + c) / 256) modulo 256: DIV counts
\* once per 256 cycles and the timer's own tick never resets it.
C1_DivCountsCycles ==
  [][last'.op = "timerStep" =>
       ReadByte(mem', 65284) = U8(DIV + (timer.divCounter + last'.cycles) \div 256)]_vars

\* The closed form of TIMA after n increments from t with reload value m.
TimaAfter(t, m, n) ==
  IF t + n <= 255 THEN t + n
  ELSE m + ((n - (256 - t)) % (256 - m))

\* The period table of the claim, by the low two bits of TAC.
C2_Period(k) == IF k = 0 THEN 1024 ELSE IF k = 1 THEN 16 ELSE IF k = 2 THEN 64 ELSE 256

\* C2: with TAC bit 2 set, a Timer::step(c) increments TIMA once per
\* period(TAC & 3) of accumulated cycles; an increment from 0xFF reloads TMA
\* and ORs bit 2 into IF, and a step without such an increment leaves IF alone.
C2_TimaOncePerPeriod ==
  [][(last'.op = "timerStep" /\ Bit(TAC, 2) = 1) =>
       LET p == C2_Period(TAC % 4)
           n == (timer.timaCounter + last'.cycles) \div p
       IN /\ timer'.timaCounter = (timer.timaCounter + last'.cycles) % p
          /\ ReadByte(mem', 65285) = TimaAfter(TIMA, TMA, n)
          /\ ReadByte(mem', 65286) = TMA
          /\ ReadByte(mem', 65287) = TAC
          /\ ReadByte(mem', 65295) = (IF TIMA + n > 255 THEN BitOr(IFlags, 4) ELSE IFlags)]_vars

\* A step that overflowed TIMA several times with a non-zero reload value.
C2_Witness ==
  /\ last.op = "timerStep"
  /\ last.cycles = 160
  /\ TAC = 5
  /\ TMA = 253
  /\ Bit(IFlags, 2) = 1
  /\ TIMA \in {253, 254, 255}

(***************************************************************************)
(* The cartridge on the bus: loadROM, writes to the MBC registers at       *)
(* 0x0000-0x7FFF and reads of the ROM windows, as in                       *)
(* test_memory_bank_switch.                                                *)
(***************************************************************************)
MaxMbcOps == 3

Image(type, romCode, ramCode, size) ==
  [size |-> size, type |-> type, romCode |-> romCode, ramCode |-> ramCode,
   prog |-> <<>>]

\* The ROM-size codes of the loader's table.
RomCodes == {0, 1, 2, 3, 4, 5, 6, 7, 8, 82, 83, 84}

\* MBC1 images of every table size, whole; one MBC1 image shorter than its
\* header says; one ROM-only image.
Carts ==
  {Image(1, c, 0, RomBanksForCode(c, 0) * BankSize) : c \in RomCodes}
    \cup {Image(1, 5, 0, 4 * BankSize), Image(0, 0, 0, 2 * BankSize)}

MbcWrites ==
  {<<0, 10>>, <<8191, 0>>,
   <<8192, 0>>, <<8192, 1>>, <<8192, 2>>, <<8192, 3>>, <<8192, 4>>,
   <<8192, 8>>, <<8192, 16>>, <<16383, 31>>, <<8192, 32>>, <<8192, 255>>,
   <<16384, 0>>, <<16384, 1>>, <<16384, 2>>, <<24575, 3>>, <<16384, 255>>,
   <<24576, 0>>, <<32767, 1>>}

RomReads == {0, 16384, 16385, 32767}

\* The values an undefined `bank % 0` may leave in the 8-bit bank.
UndefinedBanks == 0 .. 255

MbcLoad(img) ==
  /\ ~trapped
  /\ steps < MaxMbcOps
  /\ mem' = LoadROM(mem, File(img))
  /\ last' = [op |-> "load", ok |-> LoadROMResult(File(img))]
  /\ steps' = steps + 1
  /\ UNCHANGED <<timer, ppu, joypad, cpu, trapped, hist>>

MbcWrite(w) ==
  /\ ~trapped
  /\ steps < MaxMbcOps
  /\ mem' = WriteByte(mem, w[1], w[2])
  /\ last' = [op |-> "write", addr |-> w[1], val |-> w[2]]
  /\ steps' = steps + 1
  /\ UNCHANGED <<timer, ppu, joypad, cpu, trapped, hist>>

\* readByte(a) where it is defined.
RomRead(a) ==
  /\ ~trapped
  /\ steps < MaxMbcOps
  /\ ~ReadUndefined(mem, a)
  /\ last' = [op |-> "read", addr |-> a, val |-> ReadByte(mem, a)]
  /\ steps' = steps + 1
  /\ UNCHANGED <<mem, timer, ppu, joypad, cpu, trapped, hist>>

\* readByte(a) where `bank % 0` is evaluated: the division traps ...
RomReadTraps(a) ==
  /\ ~trapped
  /\ steps < MaxMbcOps
  /\ ReadUndefined(mem, a)
  /\ trapped' = TRUE
  /\ last' = [op |-> "read", addr |-> a, val |-> -1]
  /\ steps' = steps + 1
  /\ UNCHANGED <<mem, timer, ppu, joypad, cpu, hist>>

\* ... or leaves some value u in the bank.
RomReadUndefined(a) ==
  /\ ~trapped
  /\ steps < MaxMbcOps
  /\ ReadUndefined(mem, a)
  /\ \E u \in UndefinedBanks :
       last' = [op |-> "read", addr |-> a, val |-> ReadByteU(mem, a, u)]
  /\ steps' = steps + 1
  /\ UNCHANGED <<mem, timer, ppu, joypad, cpu, trapped, hist>>

NextMbc ==
  \/ \E img \in Carts : MbcLoad(img)
  \/ \E w \in MbcWrites : MbcWrite(w)
  \/ \E a \in RomReads : RomRead(a)
  \/ \E a \in RomReads : RomReadTraps(a)
  \/ \E a \in RomReads : RomReadUndefined(a)

SpecMbc == Constructed /\ [][NextMbc]_vars

\* C3: for an MBC1 cartridge with more than one bank, the effective ROM bank
\* of the 0x4000-0x7FFF window is never 0 (stated where the bank is defined).
C3_BankNeverZero ==
  (IsMBC1(mem) /\ mem.numRomBanks > 1 /\ RomBankDivisor(mem) # 0)
    => CurrentROMBankU(mem, 0) # 0

\* The bank counts of the ROM-size table, by code.
C4_Banks(code) ==
  IF code <= 8 THEN 2 ^ (code + 1)
  ELSE IF code = 82 THEN 72 ELSE IF code = 83 THEN 80 ELSE 96

\* The byte the claim gives a read of 0x4000 + k.
C4_Expected(k) ==
  LET n == C4_Banks(mem.romData.romCode)
      B == (mem.romBankHigh * 32 + mem.romBankLow) % n
      offset == B * 16384 + k
  IN IF offset < mem.romData.size THEN RomByte(mem.romData, offset) ELSE 255

\* C4: for an MBC1 cartridge of any table size a read of 0x4000 + k returns
\* the image byte at B * 0x4000 + k, B = ((high << 5) | low) mod n, or 0xFF
\* past the end of the image.
C4_SwitchableRead ==
  (IsMBC1(mem) /\ last.op = "read" /\ last.addr >= 16384)
    => last.val = C4_Expected(last.addr - 16384)

(***************************************************************************)
(* PPU (ppu.cpp).  A PPU value is the record of the class's fields; the    *)
(* operators return the memory and the PPU after the call.                 *)
(***************************************************************************)
LineDots == 456

\* An update that rebuilds STAT from the mode and the coincidence bit alone.
UpdateSTATDropsHighBits(m, p) ==
  LET withMode == BitAnd(p.mode, 3)
      lyc == ReadByte(m, 65349)
      withLyc == IF lyc = p.ly THEN BitOr(withMode, 4) ELSE withMode
  IN WriteByte(m, 65345, withLyc)

\* PPU::updateSTAT(): the memory after it.
UpdateSTAT(m, p) ==
  LET stat == ReadByte(m, 65345)
      withMode == U8(BitOr(BitAnd(stat, 252), BitAnd(p.mode, 3)))
      lyc == ReadByte(m, 65349)
      withLyc == IF lyc = p.ly THEN BitOr(withMode, 4)
                 ELSE BitAnd(withMode, 251)
  IN WriteByte(m, 65345, withLyc)

\* PPU::reset().
PPUReset(m) ==
  LET p == [dotCounter |-> 0, ly |-> 0, mode |-> 2, vblankTriggered |-> FALSE]
  IN <<UpdateSTAT(WriteByte(m, 65348, p.ly), p), p>>

PPUDisabledStepKeepsLatch(m, p) ==
  LET q == [dotCounter |-> 0, ly |-> 0, mode |-> 0,
            vblankTriggered |-> p.vblankTriggered]
  IN <<UpdateSTAT(WriteByte(m, 65348, q.ly), q), q>>

\* PPU::step with LCDC bit 7 clear.
PPUDisabledStep(m, p) ==
  LET q == [dotCounter |-> 0, ly |-> 0, mode |-> 0, vblankTriggered |-> FALSE]
  IN <<UpdateSTAT(WriteByte(m, 65348, q.ly), q), q>>

PPUNextLineLateWrap(m, p) ==
  LET ly1 == U8(p.ly + 1)
      dots == p.dotCounter - LineDots
      request == ly1 = 144 /\ ~p.vblankTriggered
      m1 == IF request THEN WriteByte(m, 65295, BitOr(ReadByte(m, 65295), 1))
            ELSE m
      q == IF ly1 = 144
           THEN [dotCounter |-> dots, ly |-> ly1, mode |-> 1,
                 vblankTriggered |-> TRUE]
           ELSE IF ly1 > 154
           THEN [dotCounter |-> dots, ly |-> 0, mode |-> 2,
                 vblankTriggered |-> FALSE]
           ELSE IF ly1 < 144
           THEN [dotCounter |-> dots, ly |-> ly1, mode |-> 2,
                 vblankTriggered |-> p.vblankTriggered]
           ELSE [dotCounter |-> dots, ly |-> ly1, mode |-> p.mode,
                 vblankTriggered |-> p.vblankTriggered]
  IN <<UpdateSTAT(WriteByte(m1, 65348, q.ly), q), q>>

\* One iteration of the scanline loop of PPU::step.
PPUNextLine(m, p) ==
  LET ly1 == U8(p.ly + 1)
      dots == p.dotCounter - LineDots
      request == ly1 = 144 /\ ~p.vblankTriggered
      m1 == IF request THEN WriteByte(m, 65295, BitOr(ReadByte(m, 65295), 1))
            ELSE m
      q == IF ly1 = 144
           THEN [dotCounter |-> dots, ly |-> ly1, mode |-> 1,
                 vblankTriggered |-> TRUE]
           ELSE IF ly1 > 153
           THEN [dotCounter |-> dots, ly |-> 0, mode |-> 2,
                 vblankTriggered |-> FALSE]
           ELSE IF ly1 < 144
           THEN [dotCounter |-> dots, ly |-> ly1, mode |-> 2,
                 vblankTriggered |-> p.vblankTriggered]
           ELSE [dotCounter |-> dots, ly |-> ly1, mode |-> p.mode,
                 vblankTriggered |-> p.vblankTriggered]
  IN <<UpdateSTAT(WriteByte(m1, 65348, q.ly), q), q>>

\* The scanline loop, while (dotCounter_ >= 456), run for at most n
\* iterations; the run is split in halves to keep the evaluation shallow.
RECURSIVE PPULinesUpTo(_, _, _)
PPULinesUpTo(m, p, n) ==
  IF n = 0 \/ p.dotCounter < LineDots THEN <<m, p>>
  ELSE IF n = 1 THEN PPUNextLine(m, p)
  ELSE LET r == PPULinesUpTo(m, p, n \div 2)
       IN IF Evaluated(r) THEN PPULinesUpTo(r[1], r[2], n - (n \div 2))
          ELSE r

\* The whole loop: it ends within dotCounter_ / 456 iterations.
PPULines(m, p) == PPULinesUpTo(m, p, (p.dotCounter \div LineDots) + 1)

\* A pixel transfer that ends four dots early.
PPUFinalModeShortTransfer(p) ==
  IF p.ly < 144
  THEN IF p.dotCounter < 80 THEN 2
       ELSE IF p.dotCounter < 80 + 168 THEN 3
       ELSE 0
  ELSE 1

\* The mode PPU::step settles on after the loop.
PPUFinalMode(p) ==
  IF p.ly < 144
  THEN IF p.dotCounter < 80 THEN 2
       ELSE IF p.dotCounter < 80 + 172 THEN 3
       ELSE 0
  ELSE 1

\* PPU::step(cycles).
PPUStep(m, p, cycles) ==
  IF BitAnd(ReadByte(m, 65344), 128) = 0
  THEN PPUDisabledStep(m, p)
  ELSE LET r == PPULines(m, [p EXCEPT !.dotCounter = p.dotCounter + cycles * 4])
           q == [r[2] EXCEPT !.mode = PPUFinalMode(r[2])]
       IN <<UpdateSTAT(r[1], q), q>>

(***************************************************************************)
(* The PPU on the bus: PPU::reset, PPU::step and CPU writes to LCDC, STAT, *)
(* LY, LYC and IF.  hist.elapsed counts the cycles stepped with the LCD on *)
(* since the PPU was last at the start of a frame.                         *)
(***************************************************************************)
MaxPpuOps == 5

PpuCycles == {4, 57, 114, 114 * 143, 114 * 154}

PpuWrites ==
  {<<65344, 128>>, <<65344, 0>>,
   <<65345, 123>>,
   <<65348, 200>>,
   <<65349, 144>>,
   <<65295, 0>>}

LcdOn(m) == BitAnd(ReadByte(m, 65344), 128) # 0

PpuReset ==
  /\ steps < MaxPpuOps
  /\ LET r == PPUReset(mem)
     IN mem' = r[1] /\ ppu' = r[2]
  /\ last' = [op |-> "ppuReset"]
  /\ hist' = [hist EXCEPT !.elapsed = 0]
  /\ steps' = steps + 1
  /\ UNCHANGED <<timer, joypad, cpu, trapped>>

PpuStep(cycles) ==
  /\ steps < MaxPpuOps
  /\ LET r == PPUStep(mem, ppu, cycles)
     IN mem' = r[1] /\ ppu' = r[2]
  /\ last' = [op |-> "ppuStep", cycles |-> cycles, was |-> ppu]
  /\ hist' = [hist EXCEPT !.elapsed = IF LcdOn(mem) THEN @ + cycles ELSE 0]
  /\ steps' = steps + 1
  /\ UNCHANGED <<timer, joypad, cpu, trapped>>

PpuBusWrite(w) ==
  /\ steps < MaxPpuOps
  /\ mem' = WriteByte(mem, w[1], w[2])
  /\ last' = [op |-> "write", addr |-> w[1], val |-> w[2]]
  /\ steps' = steps + 1
  /\ UNCHANGED <<timer, ppu, joypad, cpu, trapped, hist>>

NextPpu ==
  \/ PpuReset
  \/ \E c \in PpuCycles : PpuStep(c)
  \/ \E w \in PpuWrites : PpuBusWrite(w)

SpecPpu == Constructed /\ [][NextPpu]_vars

LY == ReadByte(mem, 65348)
StatMode == ReadByte(mem, 65345) % 4

\* C5: after PPU::reset, and after every PPU::step taken with LCDC bit 7 set,
\* whatever the step sizes were, the byte published at 0xFF44 is within 0..153,
\* STAT bits 0-1 hold a mode in 0..3, and that mode is 1 exactly when LY >= 144.
C5_LyAndMode ==
  (last.op = "ppuReset" \/ (last.op = "ppuStep" /\ LcdOn(mem))) =>
    /\ LY \in 0 .. 153
    /\ StatMode \in 0 .. 3
    /\ (StatMode = 1 <=> LY >= 144)

\* C6: a PPU::step taken with LCDC bit 7 clear, from any PPU state, leaves
\* LY = 0, STAT bits 0-1 = 0, the dot counter at 0 and the VBlank latch clear,
\* and changes no bit of IF.
C6_DisabledStep ==
  [][(last'.op = "ppuStep" /\ ~LcdOn(mem)) =>
       /\ ReadByte(mem', 65348) = 0
       /\ ReadByte(mem', 65345) % 4 = 0
       /\ ppu'.ly = 0
       /\ ppu'.dotCounter = 0
       /\ ppu'.vblankTriggered = FALSE
       /\ ReadByte(mem', 65295) = IFlags]_vars

\* A disabled step taken in VBlank with the latch set and IF bit 0 pending.
C6_Witness ==
  /\ last.op = "ppuStep"
  /\ ~LcdOn(mem)
  /\ last.was.vblankTriggered
  /\ last.was.ly >= 144
  /\ Bit(IFlags, 0) = 1
  /\ LY = 0

\* The scanline reached after n cycles of an enabled LCD, 114 cycles a line.
C7_Line(n) == (n \div 114) % 154

\* How many times LY has become 144 within the first n cycles.
C7_VBlanks(n) == ((n \div 114) + 10) \div 154

\* C7: with the LCD enabled from the start of a frame, a step that brings the
\* total to 114*n cycles, whatever the split into steps, leaves LY = n mod 154,
\* and a step ORs bit 0 into IF exactly when LY becomes 144 during it: once
\* per frame, and not again after the CPU has cleared the bit while LY is
\* 144..153.
C7_FrameTiming ==
  [][(last'.op = "ppuStep" /\ LcdOn(mem)) =>
       /\ (hist'.elapsed % 114 = 0) =>
             ReadByte(mem', 65348) = C7_Line(hist'.elapsed)
       /\ ppu'.ly = C7_Line(hist'.elapsed)
       /\ ReadByte(mem', 65295) =
            (IF C7_VBlanks(hist'.elapsed) > C7_VBlanks(hist.elapsed)
             THEN BitOr(IFlags, 1) ELSE IFlags)]_vars

\* A step inside VBlank after the CPU has cleared IF bit 0: it stays clear.
C7_Witness ==
  /\ last.op = "ppuStep"
  /\ LcdOn(mem)
  /\ last.was.vblankTriggered
  /\ last.was.ly >= 144
  /\ hist.elapsed % 114 = 0
  /\ LY \in 145 .. 153
  /\ Bit(IFlags, 0) = 0

(***************************************************************************)
(* The RAM regions on the bus: CPU writes and reads of VRAM, WRAM, echo    *)
(* RAM, OAM and HRAM, writes to the bank selects VBK and SVBK, and         *)
(* Memory::reset.                                                          *)
(***************************************************************************)
MaxBusOps == 3

EchoAddrs == {57344, 61439, 61440, 65023}

WramAddrs == {49152, 53247, 53248, 56831, 57343}

RamAddrs == {32768, 40959} \cup WramAddrs \cup {65024, 65183, 65408, 65534}

BusValues == {90, 255}

BankSelects == {<<65359, 0>>, <<65359, 1>>, <<65392, 0>>, <<65392, 2>>, <<65392, 7>>}

BusWrite(a, v) ==
  /\ steps < MaxBusOps
  /\ mem' = WriteByte(mem, a, v)
  /\ last' = [op |-> "write", addr |-> a, val |-> v]
  /\ steps' = steps + 1
  /\ UNCHANGED <<timer, ppu, joypad, cpu, trapped, hist>>

BusRead(a) ==
  /\ steps < MaxBusOps
  /\ last' = [op |-> "read", addr |-> a, val |-> ReadByte(mem, a)]
  /\ steps' = steps + 1
  /\ UNCHANGED <<mem, timer, ppu, joypad, cpu, trapped, hist>>

BusReset ==
  /\ steps < MaxBusOps
  /\ mem' = MemoryReset(mem)
  /\ last' = [op |-> "memReset"]
  /\ steps' = steps + 1
  /\ UNCHANGED <<timer, ppu, joypad, cpu, trapped, hist>>

NextBus ==
  \/ \E a \in RamAddrs \cup EchoAddrs : \E v \in BusValues : BusWrite(a, v)
  \/ \E w \in BankSelects : BusWrite(w[1], w[2])
  \/ \E a \in RamAddrs \cup EchoAddrs : BusRead(a)
  \/ BusReset

SpecBus == Constructed /\ [][NextBus]_vars

\* C8: every echo address reads what its WRAM alias 0x2000 below reads, and a
\* byte written through either alias is read back through both.
C8_EchoMirrorsWram ==
  /\ \A a \in EchoAddrs : ReadByte(mem, a) = ReadByte(mem, a - 8192)
  /\ (last.op = "read" /\ last.addr \in EchoAddrs) =>
        last.val = ReadByte(mem, last.addr - 8192)
  /\ (last.op = "write" /\ last.addr \in EchoAddrs) =>
        /\ ReadByte(mem, last.addr) = last.val
        /\ ReadByte(mem, last.addr - 8192) = last.val
  /\ (last.op = "write" /\ last.addr \in WramAddrs /\ last.addr < 56832) =>
        ReadByte(mem, last.addr + 8192) = last.val

\* A write through the last echo address with WRAM bank 2 selected.
C8_Witness ==
  /\ last.op = "write"
  /\ last.addr = 65023
  /\ last.val = 90
  /\ mem.wramBank = 2
  /\ ReadByte(mem, 56831) = 90

\* C9: a byte written to VRAM, WRAM, OAM or HRAM is the byte the next read of
\* the same address returns.
C9_ReadAfterWrite ==
  (last.op = "write" /\ last.addr \in RamAddrs) =>
     ReadByte(mem, last.addr) = last.val

\* A write of 0xFF to VRAM with bank 1 selected.
C9_Witness ==
  /\ last.op = "write"
  /\ last.addr = 32768
  /\ last.val = 255
  /\ mem.vramBank = 1
  /\ ReadByte(mem, 32768) = 255

(***************************************************************************)
(* CPU (cpu.cpp).  A CPU value is the record of the registers; r is the    *)
(* CPU and m the memory an operator starts from.                           *)
(***************************************************************************)
Z_FLAG == 128
N_FLAG == 64
H_FLAG == 32
C_FLAG == 16

\* static_cast<int8_t> of a byte.
S8(x) == IF x >= 128 THEN x - 256 ELSE x

GetAF(r) == r.a * 256 + r.f

SetAFUnmasked(r, value) ==
  [r EXCEPT !.a = U8(value \div 256), !.f = U8(value)]

SetAF(r, value) ==
  [r EXCEPT !.a = U8(value \div 256), !.f = U8(BitAnd(value, 240))]

GetBC(r) == r.b * 256 + r.c
SetBC(r, value) == [r EXCEPT !.b = U8(value \div 256), !.c = U8(value)]
GetDE(r) == r.d * 256 + r.e
SetDE(r, value) == [r EXCEPT !.d = U8(value \div 256), !.e = U8(value)]
GetHL(r) == r.h * 256 + r.l
SetHL(r, value) == [r EXCEPT !.h = U8(value \div 256), !.l = U8(value)]

SetFlag(r, flag, set) ==
  [r EXCEPT !.f = IF set THEN BitOr(@, flag) ELSE BitAnd(@, 255 - flag)]

GetFlag(r, flag) == BitAnd(r.f, flag) # 0

\* Four setFlag calls in a row, on Z, N, H and C.
SetZNHC(r, z, n, h, cy) ==
  SetFlag(SetFlag(SetFlag(SetFlag(r, Z_FLAG, z), N_FLAG, n), H_FLAG, h),
          C_FLAG, cy)

\* The lambda readReg8 of executeInstruction.
ReadReg8(m, r, index) ==
  CASE index = 0 -> r.b
    [] index = 1 -> r.c
    [] index = 2 -> r.d
    [] index = 3 -> r.e
    [] index = 4 -> r.h
    [] index = 5 -> r.l
    [] index = 6 -> ReadByte(m, GetHL(r))
    [] index = 7 -> r.a
    [] OTHER -> 0

\* The lambda writeReg8 of executeInstruction: <<memory, CPU>> after it.
WriteReg8(m, r, index, value) ==
  CASE index = 0 -> <<m, [r EXCEPT !.b = value]>>
    [] index = 1 -> <<m, [r EXCEPT !.c = value]>>
    [] index = 2 -> <<m, [r EXCEPT !.d = value]>>
    [] index = 3 -> <<m, [r EXCEPT !.e = value]>>
    [] index = 4 -> <<m, [r EXCEPT !.h = value]>>
    [] index = 5 -> <<m, [r EXCEPT !.l = value]>>
    [] index = 6 -> <<WriteByte(m, GetHL(r), value), r>>
    [] index = 7 -> <<m, [r EXCEPT !.a = value]>>
    [] OTHER -> <<m, r>>

\* inc8: the CPU with its flags updated; the result is Inc8Result(value).
Inc8Result(value) == U8(value + 1)

Inc8(r, value) ==
  LET carry == GetFlag(r, C_FLAG)
  IN SetZNHC(r, Inc8Result(value) = 0, FALSE, (value % 16) + 1 > 15, carry)

Dec8Result(value) == U8(value - 1)

Dec8(r, value) ==
  LET carry == GetFlag(r, C_FLAG)
  IN SetZNHC(r, Dec8Result(value) = 0, TRUE, value % 16 = 0, carry)

Add8HalfCarryAtFifteen(r, value) ==
  LET result == r.a + value
  IN [SetZNHC(r, U8(result) = 0, FALSE, (r.a % 16) + (value % 16) > 14,
              result > 255)
      EXCEPT !.a = U8(result)]

Add8(r, value) ==
  LET result == r.a + value
  IN [SetZNHC(r, U8(result) = 0, FALSE, (r.a % 16) + (value % 16) > 15,
              result > 255)
      EXCEPT !.a = U8(result)]

Adc8(r, value) ==
  LET carry == IF GetFlag(r, C_FLAG) THEN 1 ELSE 0
      result == r.a + value + carry
  IN [SetZNHC(r, U8(result) = 0, FALSE,
              (r.a % 16) + (value % 16) + carry > 15, result > 255)
      EXCEPT !.a = U8(result)]

Sub8(r, value) ==
  LET result == U16(r.a - value)
  IN [SetZNHC(r, U8(result) = 0, TRUE, (r.a % 16) < (value % 16), r.a < value)
      EXCEPT !.a = U8(result)]

Sbc8(r, value) ==
  LET carry == IF GetFlag(r, C_FLAG) THEN 1 ELSE 0
      result == U16(r.a - value - carry)
  IN [SetZNHC(r, U8(result) = 0, TRUE, (r.a % 16) < (value % 16) + carry,
              r.a < value + carry)
      EXCEPT !.a = U8(result)]

And8(r, value) ==
  LET a1 == BitAnd(r.a, value)
  IN SetZNHC([r EXCEPT !.a = a1], a1 = 0, FALSE, TRUE, FALSE)

Or8(r, value) ==
  LET a1 == BitOr(r.a, value)
  IN SetZNHC([r EXCEPT !.a = a1], a1 = 0, FALSE, FALSE, FALSE)

Xor8(r, value) ==
  LET a1 == BitXor(r.a, value)
  IN SetZNHC([r EXCEPT !.a = a1], a1 = 0, FALSE, FALSE, FALSE)

Cp8(r, value) ==
  LET result == U16(r.a - value)
  IN SetZNHC(r, U8(result) = 0, TRUE, (r.a % 16) < (value % 16), r.a < value)

AddHL(r, value) ==
  LET hl == GetHL(r)
      result == hl + value
      flagged == SetFlag(SetFlag(SetFlag(r, N_FLAG, FALSE), H_FLAG,
                                 (hl % 4096) + (value % 4096) > 4095),
                         C_FLAG, result > 65535)
  IN SetHL(flagged, U16(result))

\* memory_.readByte(pc_) and the 16-bit little-endian immediate at pc_.
Imm8(m, r) == ReadByte(m, r.pc)

Imm16(m, r) == BitOr(ReadByte(m, r.pc), ReadByte(m, U16(r.pc + 1)) * 256)

\* pc_ advanced by n bytes.
Skip(r, n) == [r EXCEPT !.pc = U16(@ + n)]

\* The push sequence: high byte at sp-1, low byte at sp-2.
PushLowFirst(m, r, value) ==
  LET sp1 == U16(r.sp - 1)
      m1 == WriteByte(m, sp1, U8(value))
      sp2 == U16(sp1 - 1)
      m2 == WriteByte(m1, sp2, U8(value \div 256))
  IN <<m2, [r EXCEPT !.sp = sp2]>>

Push(m, r, value) ==
  LET sp1 == U16(r.sp - 1)
      m1 == WriteByte(m, sp1, U8(value \div 256))
      sp2 == U16(sp1 - 1)
      m2 == WriteByte(m1, sp2, U8(value))
  IN <<m2, [r EXCEPT !.sp = sp2]>>

\* The pop sequence: the word read at sp, and the CPU with sp advanced.
PopValue(m, r) ==
  U16(BitOr(ReadByte(m, U16(r.sp + 1)) * 256, ReadByte(m, r.sp)))

Popped(r) == [r EXCEPT !.sp = U16(@ + 2)]

\* RET cc / RET / RETI.
Ret(m, r, taken) ==
  IF taken THEN <<m, [Popped(r) EXCEPT !.pc = PopValue(m, r)]>> ELSE <<m, r>>

\* JP cc,a16 / JP a16.
Jp(m, r, taken) == <<m, IF taken THEN [r EXCEPT !.pc = Imm16(m, r)] ELSE Skip(r, 2)>>

\* CALL cc,a16 / CALL a16.
CallPushesOperandAddress(m, r, taken) ==
  LET addr == Imm16(m, r)
      r1 == Skip(r, 2)
  IN IF taken
     THEN LET p == Push(m, r1, r.pc) IN <<p[1], [p[2] EXCEPT !.pc = addr]>>
     ELSE <<m, r1>>

Call(m, r, taken) ==
  LET addr == Imm16(m, r)
      r1 == Skip(r, 2)
  IN IF taken
     THEN LET p == Push(m, r1, r1.pc) IN <<p[1], [p[2] EXCEPT !.pc = addr]>>
     ELSE <<m, r1>>

\* RST n.
Rst(m, r, target) ==
  LET p == Push(m, r, r.pc) IN <<p[1], [p[2] EXCEPT !.pc = target]>>

\* A relative jump that adds the offset to the operand's address.
JrFromOperandAddress(m, r, taken) ==
  LET offset == S8(Imm8(m, r))
      r1 == Skip(r, 1)
  IN <<m, IF taken THEN [r EXCEPT !.pc = U16(@ + offset)] ELSE r1>>

\* JR cc,e8 / JR e8.
Jr(m, r, taken) ==
  LET offset == S8(Imm8(m, r))
      r1 == Skip(r, 1)
  IN <<m, IF taken THEN [r1 EXCEPT !.pc = U16(@ + offset)] ELSE r1>>

\* LD r,d8 and LD (HL),d8.
LdImm8OperandNotSkipped(m, r, index) == WriteReg8(m, r, index, Imm8(m, r))

LdImm8(m, r, index) == WriteReg8(m, Skip(r, 1), index, Imm8(m, r))

\* INC r / INC (HL) and DEC r / DEC (HL).
IncReg8(m, r, index) ==
  LET value == ReadReg8(m, r, index)
  IN WriteReg8(m, Inc8(r, value), index, Inc8Result(value))

DecReg8(m, r, index) ==
  LET value == ReadReg8(m, r, index)
  IN WriteReg8(m, Dec8(r, value), index, Dec8Result(value))

\* RLCA, RRCA, RLA, RRA.
Rlca(r) ==
  LET bit7 == r.a \div 128
  IN SetZNHC([r EXCEPT !.a = U8(r.a * 2 + bit7)], FALSE, FALSE, FALSE, bit7 # 0)

Rrca(r) ==
  LET bit0 == r.a % 2
  IN SetZNHC([r EXCEPT !.a = (r.a \div 2) + bit0 * 128], FALSE, FALSE, FALSE,
             bit0 # 0)

Rla(r) ==
  LET oldCarry == GetFlag(r, C_FLAG)
      newCarry == r.a \div 128
  IN SetZNHC([r EXCEPT !.a = U8(r.a * 2 + (IF oldCarry THEN 1 ELSE 0))],
             FALSE, FALSE, FALSE, newCarry # 0)

Rra(r) ==
  LET oldCarry == GetFlag(r, C_FLAG)
      newCarry == r.a % 2
  IN SetZNHC([r EXCEPT !.a = (r.a \div 2) + (IF oldCarry THEN 128 ELSE 0)],
             FALSE, FALSE, FALSE, newCarry # 0)

\* DAA.
DaaHighAboveNibble(r) ==
  LET n == GetFlag(r, N_FLAG)
      h == GetFlag(r, H_FLAG)
      cy == GetFlag(r, C_FLAG)
      low == IF n THEN h ELSE (h \/ (r.a % 16) > 9)
      high == IF n THEN cy ELSE (cy \/ r.a > 159)
      correction == (IF low THEN 6 ELSE 0) + (IF high THEN 96 ELSE 0)
      a1 == IF n THEN U8(r.a - correction) ELSE U8(r.a + correction)
      r1 == SetFlag(SetFlag([r EXCEPT !.a = a1], H_FLAG, FALSE), Z_FLAG, a1 = 0)
  IN IF high THEN SetFlag(r1, C_FLAG, TRUE) ELSE r1

Daa(r) ==
  LET n == GetFlag(r, N_FLAG)
      h == GetFlag(r, H_FLAG)
      cy == GetFlag(r, C_FLAG)
      low == IF n THEN h ELSE (h \/ (r.a % 16) > 9)
      high == IF n THEN cy ELSE (cy \/ r.a > 153)
      correction == (IF low THEN 6 ELSE 0) + (IF high THEN 96 ELSE 0)
      a1 == IF n THEN U8(r.a - correction) ELSE U8(r.a + correction)
      r1 == SetFlag(SetFlag([r EXCEPT !.a = a1], H_FLAG, FALSE), Z_FLAG, a1 = 0)
  IN IF high THEN SetFlag(r1, C_FLAG, TRUE) ELSE r1

\* CPL, SCF, CCF.
Cpl(r) == SetFlag(SetFlag([r EXCEPT !.a = 255 - r.a], N_FLAG, TRUE), H_FLAG, TRUE)

Scf(r) == SetFlag(SetFlag(SetFlag(r, C_FLAG, TRUE), N_FLAG, FALSE), H_FLAG, FALSE)

Ccf(r) ==
  LET carry == GetFlag(r, C_FLAG)
  IN SetFlag(SetFlag(SetFlag(r, C_FLAG, ~carry), N_FLAG, FALSE), H_FLAG, FALSE)

\* The flags and the sum of ADD SP,e8 and LD HL,SP+e8.
SpPlusE8(m, r) == U16(r.sp + S8(Imm8(m, r)))

SpPlusE8Flags(m, r) ==
  LET byte == Imm8(m, r)
  IN SetZNHC(Skip(r, 1), FALSE, FALSE, (r.sp % 16) + (byte % 16) > 15,
             (r.sp % 256) + byte > 255)

\* The switch of executeInstruction: <<memory, CPU>> after the opcode, with
\* pc_ already past the opcode byte.
ExecuteSwitch(m, r, opcode) ==
  CASE opcode = 0 -> <<m, r>>  \* 00 NOP
    [] opcode = 1 -> <<m, SetBC(Skip(r, 2), Imm16(m, r))>>  \* 01 LD BC,d16
    [] opcode = 2 -> <<WriteByte(m, GetBC(r), r.a), r>>  \* 02 LD (BC),A
    [] opcode = 3 -> <<m, SetBC(r, U16(GetBC(r) + 1))>>  \* 03 INC BC
    [] opcode = 4 -> IncReg8(m, r, 0)  \* 04 INC B
    [] opcode = 5 -> DecReg8(m, r, 0)  \* 05 DEC B
    [] opcode = 6 -> LdImm8(m, r, 0)  \* 06 LD B,d8
    [] opcode = 7 -> <<m, Rlca(r)>>  \* 07 RLCA
    [] opcode = 8 -> <<WriteByte(WriteByte(m, Imm16(m, r), U8(r.sp)), U16(Imm16(m, r) + 1), r.sp \div 256), Skip(r, 2)>>  \* 08 LD (a16),SP
    [] opcode = 9 -> <<m, AddHL(r, GetBC(r))>>  \* 09 ADD HL,BC
    [] opcode = 10 -> <<m, [r EXCEPT !.a = ReadByte(m, GetBC(r))]>>  \* 0A LD A,(BC)
    [] opcode = 11 -> <<m, SetBC(r, U16(GetBC(r) - 1))>>  \* 0B DEC BC
    [] opcode = 12 -> IncReg8(m, r, 1)  \* 0C INC C
    [] opcode = 13 -> DecReg8(m, r, 1)  \* 0D DEC C
    [] opcode = 14 -> LdImm8(m, r, 1)  \* 0E LD C,d8
    [] opcode = 15 -> <<m, Rrca(r)>>  \* 0F RRCA
    [] opcode = 16 -> <<m, Skip(r, 1)>>  \* 10 STOP
    [] opcode = 17 -> <<m, SetDE(Skip(r, 2), Imm16(m, r))>>  \* 11 LD DE,d16
    [] opcode = 18 -> <<WriteByte(m, GetDE(r), r.a), r>>  \* 12 LD (DE),A
    [] opcode = 19 -> <<m, SetDE(r, U16(GetDE(r) + 1))>>  \* 13 INC DE
    [] opcode = 20 -> IncReg8(m, r, 2)  \* 14 INC D
    [] opcode = 21 -> DecReg8(m, r, 2)  \* 15 DEC D
    [] opcode = 22 -> LdImm8(m, r, 2)  \* 16 LD D,d8
    [] opcode = 23 -> <<m, Rla(r)>>  \* 17 RLA
    [] opcode = 24 -> Jr(m, r, TRUE)  \* 18 JR e8
    [] opcode = 25 -> <<m, AddHL(r, GetDE(r))>>  \* 19 ADD HL,DE
    [] opcode = 26 -> <<m, [r EXCEPT !.a = ReadByte(m, GetDE(r))]>>  \* 1A LD A,(DE)
    [] opcode = 27 -> <<m, SetDE(r, U16(GetDE(r) - 1))>>  \* 1B DEC DE
    [] opcode = 28 -> IncReg8(m, r, 3)  \* 1C INC E
    [] opcode = 29 -> DecReg8(m, r, 3)  \* 1D DEC E
    [] opcode = 30 -> LdImm8(m, r, 3)  \* 1E LD E,d8
    [] opcode = 31 -> <<m, Rra(r)>>  \* 1F RRA
    [] opcode = 32 -> Jr(m, r, ~GetFlag(r, Z_FLAG))  \* 20 JR NZ,e8
    [] opcode = 33 -> <<m, SetHL(Skip(r, 2), Imm16(m, r))>>  \* 21 LD HL,d16
    [] opcode = 34 -> <<WriteByte(m, GetHL(r), r.a), SetHL(r, U16(GetHL(r) + 1))>>  \* 22 LD (HL+),A
    [] opcode = 35 -> <<m, SetHL(r, U16(GetHL(r) + 1))>>  \* 23 INC HL
    [] opcode = 36 -> IncReg8(m, r, 4)  \* 24 INC H
    [] opcode = 37 -> DecReg8(m, r, 4)  \* 25 DEC H
    [] opcode = 38 -> LdImm8(m, r, 4)  \* 26 LD H,d8
    [] opcode = 39 -> <<m, Daa(r)>>  \* 27 DAA
    [] opcode = 40 -> Jr(m, r, GetFlag(r, Z_FLAG))  \* 28 JR Z,e8
    [] opcode = 41 -> <<m, AddHL(r, GetHL(r))>>  \* 29 ADD HL,HL
    [] opcode = 42 -> <<m, SetHL([r EXCEPT !.a = ReadByte(m, GetHL(r))], U16(GetHL(r) + 1))>>  \* 2A LD A,(HL+)
    [] opcode = 43 -> <<m, SetHL(r, U16(GetHL(r) - 1))>>  \* 2B DEC HL
    [] opcode = 44 -> IncReg8(m, r, 5)  \* 2C INC L
    [] opcode = 45 -> DecReg8(m, r, 5)  \* 2D DEC L
    [] opcode = 46 -> LdImm8(m, r, 5)  \* 2E LD L,d8
    [] opcode = 47 -> <<m, Cpl(r)>>  \* 2F CPL
    [] opcode = 48 -> Jr(m, r, ~GetFlag(r, C_FLAG))  \* 30 JR NC,e8
    [] opcode = 49 -> <<m, [Skip(r, 2) EXCEPT !.sp = Imm16(m, r)]>>  \* 31 LD SP,d16
    [] opcode = 50 -> <<WriteByte(m, GetHL(r), r.a), SetHL(r, U16(GetHL(r) - 1))>>  \* 32 LD (HL-),A
    [] opcode = 51 -> <<m, [r EXCEPT !.sp = U16(@ + 1)]>>  \* 33 INC SP
    [] opcode = 52 -> IncReg8(m, r, 6)  \* 34 INC (HL)
    [] opcode = 53 -> DecReg8(m, r, 6)  \* 35 DEC (HL)
    [] opcode = 54 -> LdImm8(m, r, 6)  \* 36 LD (HL),d8
    [] opcode = 55 -> <<m, Scf(r)>>  \* 37 SCF
    [] opcode = 56 -> Jr(m, r, GetFlag(r, C_FLAG))  \* 38 JR C,e8
    [] opcode = 57 -> <<m, AddHL(r, r.sp)>>  \* 39 ADD HL,SP
    [] opcode = 58 -> <<m, SetHL([r EXCEPT !.a = ReadByte(m, GetHL(r))], U16(GetHL(r) - 1))>>  \* 3A LD A,(HL-)
    [] opcode = 59 -> <<m, [r EXCEPT !.sp = U16(@ - 1)]>>  \* 3B DEC SP
    [] opcode = 60 -> IncReg8(m, r, 7)  \* 3C INC A
    [] opcode = 61 -> DecReg8(m, r, 7)  \* 3D DEC A
    [] opcode = 62 -> LdImm8(m, r, 7)  \* 3E LD A,d8
    [] opcode = 63 -> <<m, Ccf(r)>>  \* 3F CCF
    [] opcode = 192 -> Ret(m, r, ~GetFlag(r, Z_FLAG))  \* C0 RET NZ
    [] opcode = 193 -> <<m, SetBC(Popped(r), PopValue(m, r))>>  \* C1 POP BC
    [] opcode = 194 -> Jp(m, r, ~GetFlag(r, Z_FLAG))  \* C2 JP NZ,a16
    [] opcode = 195 -> Jp(m, r, TRUE)  \* C3 JP a16
    [] opcode = 196 -> Call(m, r, ~GetFlag(r, Z_FLAG))  \* C4 CALL NZ,a16
    [] opcode = 197 -> Push(m, r, GetBC(r))  \* C5 PUSH BC
    [] opcode = 198 -> <<m, Add8(Skip(r, 1), Imm8(m, r))>>  \* C6 ADD A,n8
    [] opcode = 199 -> Rst(m, r, 0)  \* C7 RST 00h
    [] opcode = 200 -> Ret(m, r, GetFlag(r, Z_FLAG))  \* C8 RET Z
    [] opcode = 201 -> Ret(m, r, TRUE)  \* C9 RET
    [] opcode = 202 -> Jp(m, r, GetFlag(r, Z_FLAG))  \* CA JP Z,a16
    [] opcode = 203 -> <<m, Skip(r, 1)>>  \* CB PREFIX CB: the second byte is read and reported
    [] opcode = 204 -> Call(m, r, GetFlag(r, Z_FLAG))  \* CC CALL Z,a16
    [] opcode = 205 -> Call(m, r, TRUE)  \* CD CALL a16
    [] opcode = 206 -> <<m, Adc8(Skip(r, 1), Imm8(m, r))>>  \* CE ADC A,n8
    [] opcode = 207 -> Rst(m, r, 8)  \* CF RST 08h
    [] opcode = 208 -> Ret(m, r, ~GetFlag(r, C_FLAG))  \* D0 RET NC
    [] opcode = 209 -> <<m, SetDE(Popped(r), PopValue(m, r))>>  \* D1 POP DE
    [] opcode = 210 -> Jp(m, r, ~GetFlag(r, C_FLAG))  \* D2 JP NC,a16
    [] opcode = 212 -> Call(m, r, ~GetFlag(r, C_FLAG))  \* D4 CALL NC,a16
    [] opcode = 213 -> Push(m, r, GetDE(r))  \* D5 PUSH DE
    [] opcode = 214 -> <<m, Sub8(Skip(r, 1), Imm8(m, r))>>  \* D6 SUB n8
    [] opcode = 215 -> Rst(m, r, 16)  \* D7 RST 10h
    [] opcode = 216 -> Ret(m, r, GetFlag(r, C_FLAG))  \* D8 RET C
    [] opcode = 217 -> Ret(m, r, TRUE)  \* D9 RETI
    [] opcode = 218 -> Jp(m, r, GetFlag(r, C_FLAG))  \* DA JP C,a16
    [] opcode = 220 -> Call(m, r, GetFlag(r, C_FLAG))  \* DC CALL C,a16
    [] opcode = 222 -> <<m, Sbc8(Skip(r, 1), Imm8(m, r))>>  \* DE SBC A,n8
    [] opcode = 223 -> Rst(m, r, 24)  \* DF RST 18h
    [] opcode = 224 -> <<WriteByte(m, 65280 + Imm8(m, r), r.a), Skip(r, 1)>>  \* E0 LDH (n8),A
    [] opcode = 225 -> <<m, SetHL(Popped(r), PopValue(m, r))>>  \* E1 POP HL
    [] opcode = 226 -> <<WriteByte(m, 65280 + r.c, r.a), r>>  \* E2 LD (C),A
    [] opcode = 229 -> Push(m, r, GetHL(r))  \* E5 PUSH HL
    [] opcode = 230 -> <<m, And8(Skip(r, 1), Imm8(m, r))>>  \* E6 AND n8
    [] opcode = 231 -> Rst(m, r, 32)  \* E7 RST 20h
    [] opcode = 232 -> <<m, [SpPlusE8Flags(m, r) EXCEPT !.sp = SpPlusE8(m, r)]>>  \* E8 ADD SP,e8
    [] opcode = 233 -> <<m, [r EXCEPT !.pc = GetHL(r)]>>  \* E9 JP (HL)
    [] opcode = 234 -> <<WriteByte(m, Imm16(m, r), r.a), Skip(r, 2)>>  \* EA LD (a16),A
    [] opcode = 238 -> <<m, Xor8(Skip(r, 1), Imm8(m, r))>>  \* EE XOR n8
    [] opcode = 239 -> Rst(m, r, 40)  \* EF RST 28h
    [] opcode = 240 -> <<m, [Skip(r, 1) EXCEPT !.a = ReadByte(m, 65280 + Imm8(m, r))]>>  \* F0 LDH A,(n8)
    [] opcode = 241 -> <<m, SetAF(Popped(r), PopValue(m, r))>>  \* F1 POP AF
    [] opcode = 242 -> <<m, [r EXCEPT !.a = ReadByte(m, 65280 + r.c)]>>  \* F2 LD A,(C)
    [] opcode = 243 -> <<m, r>>  \* F3 DI
    [] opcode = 245 -> Push(m, r, GetAF(r))  \* F5 PUSH AF
    [] opcode = 246 -> <<m, Or8(Skip(r, 1), Imm8(m, r))>>  \* F6 OR n8
    [] opcode = 247 -> Rst(m, r, 48)  \* F7 RST 30h
    [] opcode = 248 -> <<m, SetHL(SpPlusE8Flags(m, r), SpPlusE8(m, r))>>  \* F8 LD HL,SP+e8
    [] opcode = 249 -> <<m, [r EXCEPT !.sp = GetHL(r)]>>  \* F9 LD SP,HL
    [] opcode = 250 -> <<m, [Skip(r, 2) EXCEPT !.a = ReadByte(m, Imm16(m, r))]>>  \* FA LD A,(a16)
    [] opcode = 251 -> <<m, r>>  \* FB EI
    [] opcode = 254 -> <<m, Cp8(Skip(r, 1), Imm8(m, r))>>  \* FE CP n8
    [] opcode = 255 -> Rst(m, r, 56)  \* FF RST 38h
    [] OTHER -> <<m, r>>  \* reported as unimplemented

\* CPU::executeInstruction: the register-to-register and ALU ranges, then
\* the switch.
ExecuteInstruction(m, r, opcode) ==
  LET src == opcode % 8
      dest == (opcode \div 8) % 8
  IN IF opcode >= 64 /\ opcode <= 127
     THEN (IF opcode = 118 THEN <<m, r>>
           ELSE WriteReg8(m, r, dest, ReadReg8(m, r, src)))
     ELSE IF opcode >= 128 /\ opcode <= 135 THEN <<m, Add8(r, ReadReg8(m, r, src))>>
     ELSE IF opcode >= 136 /\ opcode <= 143 THEN <<m, Adc8(r, ReadReg8(m, r, src))>>
     ELSE IF opcode >= 144 /\ opcode <= 151 THEN <<m, Sub8(r, ReadReg8(m, r, src))>>
     ELSE IF opcode >= 152 /\ opcode <= 159 THEN <<m, Sbc8(r, ReadReg8(m, r, src))>>
     ELSE IF opcode >= 160 /\ opcode <= 167 THEN <<m, And8(r, ReadReg8(m, r, src))>>
     ELSE IF opcode >= 168 /\ opcode <= 175 THEN <<m, Xor8(r, ReadReg8(m, r, src))>>
     ELSE IF opcode >= 176 /\ opcode <= 183 THEN <<m, Or8(r, ReadReg8(m, r, src))>>
     ELSE IF opcode >= 184 /\ opcode <= 191 THEN <<m, Cp8(r, ReadReg8(m, r, src))>>
     ELSE ExecuteSwitch(m, r, opcode)

\* CPU::step: fetch at pc_, advance pc_, execute.
CPUStepOpcodeNotSkipped(m, r) == ExecuteInstruction(m, r, ReadByte(m, r.pc))

CPUStep(m, r) == ExecuteInstruction(m, Skip(r, 1), ReadByte(m, r.pc))

(***************************************************************************)
(* The CPU on the bus, as in test_ld_immediate and test_add_instruction:   *)
(* a ROM-only image with a program at 0x0100 is loaded once, then          *)
(* CPU::reset and CPU::step run.  The steps run with a cartridge whose     *)
(* bank count has a non-zero low byte, so that every read is defined.      *)
(***************************************************************************)
MaxCpuOps == 4

\* The instructions the programs are made of, as byte sequences.
Instrs ==
  {<<0>>, <<118>>, <<203, 55>>, <<211>>,
   <<62, 9>>, <<62, 154>>, <<6, 5>>, <<6, 255>>,
   <<1, 255, 18>>, <<33, 255, 15>>, <<33, 0, 192>>,
   <<49, 231, 2>>, <<49, 1, 2>>, <<49, 1, 192>>,
   <<197>>, <<193>>, <<245>>, <<241>>,
   <<39>>, <<63>>, <<55>>, <<47>>,
   <<128>>, <<136>>, <<144>>, <<152>>, <<160>>, <<175>>, <<176>>, <<184>>,
   <<198, 255>>, <<206, 15>>, <<214, 1>>, <<222, 15>>,
   <<230, 15>>, <<238, 255>>, <<246, 0>>, <<254, 9>>,
   <<60>>, <<61>>, <<52>>, <<5>>,
   <<7>>, <<15>>, <<23>>, <<31>>,
   <<9>>, <<41>>, <<232, 255>>, <<248, 1>>,
   <<119>>, <<126>>,
   <<32, 2>>, <<205, 0, 192>>, <<201>>, <<255>>}

\* Instructions that set up registers, and ones that set up flags.
Setups == {<<49, 231, 2>>, <<62, 154>>, <<6, 255>>, <<1, 255, 18>>}

Middles ==
  {<<241>>, <<197>>, <<198, 255>>, <<214, 1>>, <<55>>, <<128>>, <<144>>, <<61>>}

\* Every pair of instructions, and the triples that start with a setup.
Programs ==
  {i1 \o i2 : i1 \in Instrs, i2 \in Instrs}
    \cup {i1 \o i2 \o i3 : i1 \in Setups, i2 \in Middles, i3 \in Instrs}

ProgramImage(prog) ==
  [size |-> 2 * BankSize, type |-> 0, romCode |-> 0, ramCode |-> 0,
   prog |-> prog]

CpuLoad(prog) ==
  /\ steps < MaxCpuOps
  /\ mem.romData = NoImage
  /\ mem' = LoadROM(mem, File(ProgramImage(prog)))
  /\ last' = [op |-> "load"]
  /\ steps' = steps + 1
  /\ UNCHANGED <<timer, ppu, joypad, cpu, trapped, hist>>

CpuReset ==
  /\ steps < MaxCpuOps
  /\ cpu' = CPUReset
  /\ last' = [op |-> "cpuReset"]
  /\ steps' = steps + 1
  /\ UNCHANGED <<mem, timer, ppu, joypad, trapped, hist>>

CpuStep ==
  /\ steps < MaxCpuOps
  /\ RomBankDivisor(mem) # 0
  /\ LET s == CPUStep(mem, cpu)
     IN mem' = s[1] /\ cpu' = s[2]
  /\ last' = [op |-> "cpuStep", opcode |-> ReadByte(mem, cpu.pc), was |-> cpu]
  /\ steps' = steps + 1
  /\ UNCHANGED <<timer, ppu, joypad, trapped, hist>>

NextCpu ==
  \/ \E prog \in Programs : CpuLoad(prog)
  \/ CpuReset
  \/ CpuStep

SpecCpu == Constructed /\ [][NextCpu]_vars

\* C10: after reset and after every instruction, POP AF of any word, DAA, CCF,
\* SCF, CPL and the ALU operations included, bits 3-0 of F are zero.
C10_FlagsLowNibbleZero == cpu.f % 16 = 0

\* POP AF has just popped a word whose low byte has bits 3-0 set.
C10_Witness ==
  /\ last.op = "cpuStep"
  /\ last.opcode = 241
  /\ ReadByte(mem, U16(cpu.sp - 2)) % 16 # 0
  /\ cpu.f = BitAnd(ReadByte(mem, U16(cpu.sp - 2)), 240)
  /\ cpu.f # 0

\* The two bytes below sp are in memory that reads back what was written:
\* video RAM, work RAM and its echo, OAM, or high RAM.
PlainRam(address) ==
  \/ address >= 32768 /\ address < 40960
  \/ address >= 49152 /\ address < 65184
  \/ address >= 65408 /\ address < 65535

StackInRam(sp) == PlainRam(U16(sp - 1)) /\ PlainRam(U16(sp - 2))

PushOpcodes == {197, 213, 229, 245}

\* The register pair a PUSH opcode pushes, and the POP opcode that matches it.
PairOf(r, push) ==
  CASE push = 197 -> GetBC(r)
    [] push = 213 -> GetDE(r)
    [] push = 229 -> GetHL(r)
    [] push = 245 -> GetAF(r)

PopOf(push) == push - 4

\* This step is the POP rr that immediately follows a PUSH rr.
PushThenPop ==
  /\ last.op = "cpuStep"
  /\ last.opcode \in PushOpcodes
  /\ last'.op = "cpuStep"
  /\ last'.opcode = PopOf(last.opcode)

PushPopRestores ==
  /\ PairOf(cpu', last.opcode) = PairOf(last.was, last.opcode)
  /\ cpu'.sp = last.was.sp

\* C11 as stated: PUSH rr immediately followed by POP rr leaves rr and SP equal
\* to their values before the PUSH, wherever SP points.
C11_PushPopAnywhere == [][PushThenPop => PushPopRestores]_vars

\* C11 amended: PUSH rr immediately followed by POP rr leaves rr and SP equal
\* to their values before the PUSH when the two bytes below SP are in RAM.
C11_PushPopInRam ==
  [][PushThenPop /\ StackInRam(last.was.sp) => PushPopRestores]_vars

\* A POP rr has just undone a PUSH rr of a non-zero pair on a stack in RAM.
C11_Witness ==
  /\ last.op = "cpuStep"
  /\ last.opcode \in {193, 209, 225, 241}
  /\ ReadByte(mem, last.was.pc - 1) = last.opcode + 4
  /\ StackInRam(cpu.sp)
  /\ PairOf(cpu, last.opcode + 4) # 0
  /\ PairOf(cpu, last.opcode + 4)
       = ReadByte(mem, U16(cpu.sp - 1)) * 256 + ReadByte(mem, U16(cpu.sp - 2))
\* This step is the RET that immediately follows a CALL nn.
CallThenRet ==
  /\ last.op = "cpuStep"
  /\ last.opcode = 205
  /\ last'.op = "cpuStep"
  /\ last'.opcode = 201

\* The address after the three bytes of the CALL fetched at last.was.pc.
ReturnAddress == U16(last.was.pc + 3)

CallRetReturns ==
  /\ cpu'.pc = ReturnAddress
  /\ cpu'.sp = last.was.sp
  /\ ReadByte(mem, U16(last.was.sp - 1)) = ReturnAddress \div 256
  /\ ReadByte(mem, U16(last.was.sp - 2)) = ReturnAddress % 256

\* C12 as stated: CALL nn at p and then RET leaves PC = p + 3 and SP as before
\* the CALL, and the CALL stores the high byte of p + 3 at SP-1 and the low
\* byte at SP-2, wherever SP points.
C12_CallRetAnywhere == [][CallThenRet => CallRetReturns]_vars

\* C12 amended: the same when the two bytes below SP are in RAM.
C12_CallRetInRam ==
  [][CallThenRet /\ StackInRam(last.was.sp) => CallRetReturns]_vars

\* A RET has just returned behind a CALL through a stack in RAM.
C12_Witness ==
  /\ last.op = "cpuStep"
  /\ last.opcode = 201
  /\ StackInRam(cpu.sp)
  /\ cpu.pc >= 3
  /\ ReadByte(mem, cpu.pc - 3) = 205
  /\ ReadByte(mem, cpu.pc - 2) + 256 * ReadByte(mem, cpu.pc - 1) = last.was.pc
  /\ ReadByte(mem, U16(cpu.sp - 1)) * 256 + ReadByte(mem, U16(cpu.sp - 2))
       = cpu.pc
-----------------------------------------------------------------------------
\* Short instruction sequences on chosen operands: a ROM image holds the code
\* at 0x0100 and the registers hold the operands (the unit tests reach the
\* CPU's fields directly), then the CPU is stepped.

MaxAluOps == 2

Bytes == 0 .. 255

\* The packed-BCD bytes 0x00 .. 0x99.
BcdBytes == {16 * hi + lo : hi \in 0 .. 9, lo \in 0 .. 9}

Boundary == {0, 1, 15, 16, 127, 128, 240, 255}

\* Registers that differ from each other; HL addresses the byte after the
\* opcode at 0x0100.
BaseRegs ==
  [CPUReset EXCEPT !.a = 90, !.b = 27, !.c = 28, !.d = 45, !.e = 62,
                   !.h = 1, !.l = 1]

\* The ROM image with code at 0x0100 is loaded and the registers are set.
AluSetup(code, regs) ==
  /\ mem = LoadROM(MemoryCtor, File(ProgramImage(code)))
  /\ timer = TimerCtor
  /\ ppu = PPUCtor
  /\ joypad = JoypadCtor
  /\ cpu = regs
  /\ last = [op |-> "setup"]
  /\ steps = 0
  /\ trapped = FALSE
  /\ hist = [elapsed |-> 0, ime |-> FALSE, enabling |-> FALSE, halted |-> FALSE]

\* ADD A,B then DAA on packed-BCD operands.
BcdSetup(x, y) ==
  AluSetup(<<128, 39>>, [BaseRegs EXCEPT !.a = x, !.b = y, !.f = 240])

\* LD r,d8 for B, C, D, E, H, L, A.
LdImmOpcodes == {6, 14, 22, 30, 38, 46, 62}

LdImmSetup(opcode, v, flags) ==
  AluSetup(<<opcode, v>>, [BaseRegs EXCEPT !.f = flags])

\* ADD A,r for r = B, C, D, E, H, L (index 0 .. 5), flags all set.
AddRegSetup(index, x, v) ==
  AluSetup(<<128 + index>>,
           WriteReg8(MemoryCtor, [BaseRegs EXCEPT !.a = x, !.f = 240], index, v)[2])

\* ADD A,(HL) (0x86, HL = 0x0101), ADD A,A (0x87, v unused) and ADD A,d8
\* (0xC6), flags all set.
AddByteSetup(opcode, x, v) ==
  AluSetup(<<opcode, v>>, [BaseRegs EXCEPT !.a = x, !.f = 240])

AluStep ==
  /\ steps < MaxAluOps
  /\ RomBankDivisor(mem) # 0
  /\ LET s == CPUStep(mem, cpu)
     IN mem' = s[1] /\ cpu' = s[2]
  /\ last' = [op |-> "cpuStep", opcode |-> ReadByte(mem, cpu.pc), was |-> cpu,
              prev |-> last]
  /\ steps' = steps + 1
  /\ UNCHANGED <<timer, ppu, joypad, trapped, hist>>

\* Where the stack is put: high RAM (0xFFFE, 0xFF82), work RAM (0xC002,
\* 0xD001), its echo (0xE000, 0xFE00), video RAM (0x8002, 0xA000), OAM
\* (0xFEA0), and outside RAM: ROM (0x0200, 0x8000, 0x8001), disabled
\* cartridge RAM (0xA001, 0xC000, 0xC001), the unusable area (0xFEA1, 0xFF00),
\* I/O registers (0xFF05 above DIV, 0xFF80, 0xFF81), IE (0x0000, 0xFFFF) and
\* the wrap to ROM (0x0001).
StackPointers ==
  {65534, 65410, 49154, 53249, 57344, 65024, 32770, 40960, 65184,
   512, 32768, 32769, 40961, 49152, 49153, 65185, 65280,
   65285, 65408, 65409, 0, 65535, 1}

\* PUSH rr ; POP rr for BC, DE, HL, AF, and CALL 0x02B9, whose target byte in
\* the ROM image is 0xC9 (RET).
StackOps == {<<197, 193>>, <<213, 209>>, <<229, 225>>, <<245, 241>>,
             <<205, 185, 2>>}

StackSetup(code, sp, flags) ==
  AluSetup(code, [BaseRegs EXCEPT !.sp = sp, !.f = flags])

\* The opcodes that executeInstruction has no case for.
UnimplementedOpcodes == {211, 219, 221, 227, 228, 235, 236, 237, 244, 252, 253}

\* An opcode without a case, or 0xCB and a sub-opcode, followed by INC A.
UnimplementedSetup(code, flags) ==
  AluSetup(code \o <<60>>, [BaseRegs EXCEPT !.f = flags])

AluInit ==
  \/ \E opcode \in UnimplementedOpcodes, flags \in {0, 240} :
       UnimplementedSetup(<<opcode>>, flags)
  \/ \E sub \in Bytes, flags \in {0, 240} :
       UnimplementedSetup(<<203, sub>>, flags)
  \/ \E code \in StackOps, sp \in StackPointers, flags \in {0, 240} :
       StackSetup(code, sp, flags)
  \/ \E x \in BcdBytes, y \in BcdBytes : BcdSetup(x, y)
  \/ \E opcode \in LdImmOpcodes, v \in Bytes, flags \in {0, 240} :
       LdImmSetup(opcode, v, flags)
  \/ \E x \in Bytes, v \in Bytes : AddRegSetup(0, x, v)
  \/ \E index \in 1 .. 5, x \in Boundary, v \in Bytes : AddRegSetup(index, x, v)
  \/ \E opcode \in {134, 198}, x \in Bytes, v \in Bytes :
       AddByteSetup(opcode, x, v)
  \/ \E x \in Bytes : AddByteSetup(135, x, 0)

NextAlu == AluStep

SpecAlu == AluInit /\ [][NextAlu]_vars

\* The number a packed-BCD byte encodes, and the packed-BCD byte of a number.
Dec(x) == (x \div 16) * 10 + (x % 16)

Bcd(n) == (n \div 10) * 16 + (n % 10)

\* This step is the DAA that follows ADD A,B on packed-BCD A and B.
AddThenDaa ==
  /\ last.op = "cpuStep"
  /\ last.opcode = 128
  /\ last.was.a \in BcdBytes
  /\ last.was.b \in BcdBytes
  /\ last'.op = "cpuStep"
  /\ last'.opcode = 39

\* C13: for packed-BCD x and y, ADD A,B with A = x, B = y and then DAA leaves
\* A = packed BCD of (dec(x) + dec(y)) mod 100, C = (dec(x) + dec(y) >= 100),
\* H cleared, and Z set iff the new A is 0.
C13_BcdAdd ==
  [][AddThenDaa =>
       LET sum == Dec(last.was.a) + Dec(last.was.b)
       IN /\ cpu'.a = Bcd(sum % 100)
          /\ GetFlag(cpu', C_FLAG) = (sum >= 100)
          /\ ~GetFlag(cpu', H_FLAG)
          /\ GetFlag(cpu', Z_FLAG) = (cpu'.a = 0)]_vars

\* DAA has just adjusted 0x95 + 0x05 to 0x00 with a decimal carry.
C13_Witness ==
  /\ last.op = "cpuStep"
  /\ last.opcode = 39
  /\ last.prev.op = "cpuStep"
  /\ last.prev.opcode = 128
  /\ last.prev.was.a = 149
  /\ last.prev.was.b = 5
  /\ cpu.a = 0
  /\ GetFlag(cpu, C_FLAG)
  /\ GetFlag(cpu, Z_FLAG)
\* The register an LD r,d8 opcode loads, as a field of the register file.
LdImmTarget(opcode) ==
  CASE opcode = 6 -> "b"
    [] opcode = 14 -> "c"
    [] opcode = 22 -> "d"
    [] opcode = 30 -> "e"
    [] opcode = 38 -> "h"
    [] opcode = 46 -> "l"
    [] opcode = 62 -> "a"

RegisterFields == {"a", "f", "b", "c", "d", "e", "h", "l", "sp"}

\* C14: LD r,v for r in {B, C, D, E, H, L, A} and every byte v leaves r = v,
\* advances PC by exactly 2, and changes no other register, no flag, SP or
\* memory.
C14_LdImmediate ==
  [][last'.op = "cpuStep" /\ last'.opcode \in LdImmOpcodes =>
       LET target == LdImmTarget(last'.opcode)
       IN /\ cpu'[target] = ReadByte(mem, U16(cpu.pc + 1))
          /\ cpu'.pc = U16(cpu.pc + 2)
          /\ \A field \in RegisterFields \ {target} : cpu'[field] = cpu[field]
          /\ mem' = mem]_vars

\* LD E,0xC7 has just run with all four flags set.
C14_Witness ==
  /\ last.op = "cpuStep"
  /\ last.opcode = 30
  /\ last.was.e = 62
  /\ last.was.f = 240
  /\ cpu.e = 199
  /\ cpu.f = 240
  /\ cpu.pc = 258

AddOpcodes == (128 .. 135) \cup {198}

\* The operand v of an ADD A,v fetched at r.pc.
AddOperand(m, r, opcode) ==
  IF opcode = 198 THEN ReadByte(m, U16(r.pc + 1)) ELSE ReadReg8(m, r, opcode - 128)

\* C15: ADD A,v in its register, (HL) and immediate forms leaves
\* A = (A + v) mod 256, Z = (result is 0), N = 0,
\* H = ((A & 0x0F) + (v & 0x0F) > 0x0F), C = (A + v > 0xFF), and the low
\* nibble of F zero.
C15_Add ==
  [][last'.op = "cpuStep" /\ last'.opcode \in AddOpcodes =>
       LET v == AddOperand(mem, cpu, last'.opcode)
           sum == cpu.a + v
       IN /\ cpu'.a = sum % 256
          /\ cpu'.f = (IF sum % 256 = 0 THEN Z_FLAG ELSE 0)
                        + (IF (cpu.a % 16) + (v % 16) > 15 THEN H_FLAG ELSE 0)
                        + (IF sum > 255 THEN C_FLAG ELSE 0)]_vars

\* ADD A,B has just added 5 to 3 from flags all set: A = 8 and F = 0.
C15_Witness ==
  /\ last.op = "cpuStep"
  /\ last.opcode = 128
  /\ last.was.a = 3
  /\ last.was.b = 5
  /\ last.was.f = 240
  /\ cpu.a = 8
  /\ cpu.f = 0
-----------------------------------------------------------------------------
\* The joypad on the bus: Joypad::reset, Joypad::setButton and CPU writes to
\* P1 (0xFF00).

P1Addr == 65280

\* Joypad::reset.
JoypadReset(m) == <<WriteByte(m, P1Addr, 255), [buttonState |-> 0]>>

UpdateRegisterGroupsSwapped(m, j) ==
  LET joyp == ReadByte(m, P1Addr)
      selectButtons == BitAnd(joyp, 16) = 0
      selectDirections == BitAnd(joyp, 32) = 0
      n1 == IF selectButtons
            THEN BitAnd(15, 255 - BitAnd(j.buttonState, 15))
            ELSE 15
      n2 == IF selectDirections
            THEN BitAnd(n1, 255 - BitAnd(j.buttonState \div 16, 15))
            ELSE n1
  IN WriteByte(m, P1Addr, U8(BitOr(BitOr(BitAnd(joyp, 48), BitAnd(n2, 15)), 192)))

\* Joypad::updateRegister.
UpdateRegister(m, j) ==
  LET joyp == ReadByte(m, P1Addr)
      selectButtons == BitAnd(joyp, 16) = 0
      selectDirections == BitAnd(joyp, 32) = 0
      n1 == IF selectButtons
            THEN BitAnd(15, 255 - BitAnd(j.buttonState \div 16, 15))
            ELSE 15
      n2 == IF selectDirections
            THEN BitAnd(n1, 255 - BitAnd(j.buttonState, 15))
            ELSE n1
  IN WriteByte(m, P1Addr, U8(BitOr(BitOr(BitAnd(joyp, 48), BitAnd(n2, 15)), 192)))

\* Joypad::setButton; button is the enum value 0 .. 7.
SetButton(m, j, button, pressed) ==
  LET mask == U8(2 ^ button)
      j1 == [j EXCEPT !.buttonState =
               IF pressed THEN BitOr(@, mask) ELSE BitAnd(@, U8(255 - mask))]
  IN <<UpdateRegister(m, j1), j1>>

MaxPadOps == 4

Buttons == 0 .. 7

\* Bytes the CPU writes to P1: each selection with zero and with set low and
\* high bits.
PadWrites == {0, 16, 32, 48, 47, 208, 255}

PadReset ==
  /\ steps < MaxPadOps
  /\ LET s == JoypadReset(mem) IN mem' = s[1] /\ joypad' = s[2]
  /\ last' = [op |-> "padReset"]
  /\ steps' = steps + 1
  /\ UNCHANGED <<timer, ppu, cpu, trapped, hist>>

PadSetButton(button, pressed) ==
  /\ steps < MaxPadOps
  /\ LET s == SetButton(mem, joypad, button, pressed)
     IN mem' = s[1] /\ joypad' = s[2]
  /\ last' = [op |-> "setButton", button |-> button, pressed |-> pressed,
              was |-> ReadByte(mem, P1Addr)]
  /\ steps' = steps + 1
  /\ UNCHANGED <<timer, ppu, cpu, trapped, hist>>

PadBusWrite(v) ==
  /\ steps < MaxPadOps
  /\ mem' = WriteByte(mem, P1Addr, v)
  /\ last' = [op |-> "padWrite", val |-> v]
  /\ steps' = steps + 1
  /\ UNCHANGED <<timer, ppu, joypad, cpu, trapped, hist>>

NextPad ==
  \/ PadReset
  \/ \E button \in Buttons, pressed \in BOOLEAN : PadSetButton(button, pressed)
  \/ \E v \in PadWrites : PadBusWrite(v)

SpecPad == Constructed /\ [][NextPad]_vars

\* The byte read at P1.
P1 == ReadByte(mem, P1Addr)

\* The byte composed from select bits (bits 5-4 of select) and a pressed-mask:
\* bits 7-6 set, the select bits, and in the low nibble a 0 for every pressed
\* button of a group whose select bit is 0.
Composed(select, pressed) ==
  LET actions == IF Bit(select, 4) = 0 THEN pressed \div 16 ELSE 0
      directions == IF Bit(select, 5) = 0 THEN pressed % 16 ELSE 0
      low == {k \in 0 .. 3 : Bit(actions, k) = 0 /\ Bit(directions, k) = 0}
  IN 192 + 32 * Bit(select, 5) + 16 * Bit(select, 4)
       + (IF 0 \in low THEN 1 ELSE 0) + (IF 1 \in low THEN 2 ELSE 0)
       + (IF 2 \in low THEN 4 ELSE 0) + (IF 3 \in low THEN 8 ELSE 0)

\* C16: after Joypad::reset P1 reads 0xFF, and immediately after every
\* setButton call P1 reads bits 7-6 = 1, bits 5-4 = the select bits the
\* register held before the call, and the low nibble composed from the
\* pressed-mask of the selected groups.
C16_P1AfterSetButton ==
  /\ last.op = "padReset" => P1 = 255
  /\ last.op = "setButton" => P1 = Composed(last.was, joypad.buttonState)

\* After a write of 0x20 to P1, pressing A has made P1 read 0xEE.
C16_Witness ==
  /\ last.op = "setButton"
  /\ last.button = 4
  /\ last.pressed
  /\ BitAnd(last.was, 48) = 32
  /\ joypad.buttonState = 16
  /\ P1 = 238

\* C17: across CPU writes to P1 and setButton calls, P1 reads the byte
\* composed from the last written bits 4-5 and the current pressed-mask: right
\* after a CPU write of v it reads the composition of v's bits 4-5 with the
\* pressed-mask, and right after a setButton call the composition of the
\* select bits it held with the new pressed-mask.
C17_P1Composed ==
  [][/\ last'.op = "padWrite" => P1' = Composed(last'.val, joypad'.buttonState)
     /\ last'.op = "setButton" => P1' = Composed(P1, joypad'.buttonState)]_vars
-----------------------------------------------------------------------------
\* Interrupts and HALT: the CPU stepping through a program while IF (0xFF0F)
\* and IE (0xFFFF) are written on the bus.  CPU::step and the register file
\* hold no interrupt-master-enable, enable-pending or halted flag, so hist
\* carries the values those flags have by the documented rules: reset clears
\* them; EI sets enabling, which becomes ime after the next instruction; DI
\* clears ime; RETI sets ime; HALT sets halted, which lasts while no enabled
\* interrupt is pending.

MaxIrqOps == 5

IrqInstrs == {<<0>>, <<251>>, <<243>>, <<118>>, <<217>>, <<60>>}

IrqPrograms == {i1 \o i2 \o i3 : i1 \in IrqInstrs, i2 \in IrqInstrs, i3 \in {<<0>>, <<60>>}}

\* IF and IE bytes put on the bus.
IrqWrites == {<<65295, 1>>, <<65295, 20>>, <<65295, 0>>, <<65535, 31>>, <<65535, 4>>}

\* pending = IF & IE & 0x1F.
Pending(m) == BitAnd(BitAnd(ReadByte(m, 65295), ReadByte(m, 65535)), 31)

\* The flags after a step that executed opcode from flags h with pending p.
FlagsAfter(h, opcode, p) ==
  IF h.halted /\ p = 0
  THEN h
  ELSE [h EXCEPT !.ime = CASE opcode = 243 -> FALSE
                           [] opcode = 217 -> TRUE
                           [] opcode = 251 -> @
                           [] OTHER -> @ \/ h.enabling,
                 !.enabling = (opcode = 251),
                 !.halted = (opcode = 118)]

IrqLoad(prog) ==
  /\ steps < MaxIrqOps
  /\ mem.romData = NoImage
  /\ mem' = LoadROM(mem, File(ProgramImage(prog)))
  /\ last' = [op |-> "load"]
  /\ steps' = steps + 1
  /\ UNCHANGED <<timer, ppu, joypad, cpu, trapped, hist>>

IrqReset ==
  /\ steps < MaxIrqOps
  /\ cpu' = CPUReset
  /\ last' = [op |-> "cpuReset"]
  /\ hist' = [hist EXCEPT !.ime = FALSE, !.enabling = FALSE, !.halted = FALSE]
  /\ steps' = steps + 1
  /\ UNCHANGED <<mem, timer, ppu, joypad, trapped>>

IrqBusWrite(w) ==
  /\ steps < MaxIrqOps
  /\ mem' = WriteByte(mem, w[1], w[2])
  /\ last' = [op |-> "write", addr |-> w[1], val |-> w[2]]
  /\ steps' = steps + 1
  /\ UNCHANGED <<timer, ppu, joypad, cpu, trapped, hist>>

IrqStep ==
  /\ steps < MaxIrqOps
  /\ RomBankDivisor(mem) # 0
  /\ LET s == CPUStep(mem, cpu)
     IN mem' = s[1] /\ cpu' = s[2]
  /\ last' = [op |-> "cpuStep", opcode |-> ReadByte(mem, cpu.pc), was |-> cpu]
  /\ hist' = FlagsAfter(hist, ReadByte(mem, cpu.pc), Pending(mem))
  /\ steps' = steps + 1
  /\ UNCHANGED <<timer, ppu, joypad, trapped>>

NextIrq ==
  \/ \E prog \in IrqPrograms : IrqLoad(prog)
  \/ IrqReset
  \/ \E w \in IrqWrites : IrqBusWrite(w)
  \/ IrqStep

SpecIrq == Constructed /\ [][NextIrq]_vars

\* The lowest-numbered bit set in a non-zero pending mask.
LowestBit(p) == CHOOSE k \in 0 .. 4 : Bit(p, k) = 1 /\ \A j \in 0 .. k - 1 : Bit(p, j) = 0

\* This step serviced the lowest pending interrupt: its bit is cleared in IF,
\* the PC at the boundary is on the stack, and PC is at the vector.
Serviced ==
  LET k == LowestBit(Pending(mem))
  IN /\ Pending(mem) # 0
     /\ ReadByte(mem', 65295) = ReadByte(mem, 65295) - 2 ^ k
     /\ cpu'.sp = U16(cpu.sp - 2)
     /\ ReadByte(mem', U16(cpu.sp - 1)) = cpu.pc \div 256
     /\ ReadByte(mem', U16(cpu.sp - 2)) = cpu.pc % 256
     /\ cpu'.pc = 64 + 8 * k

\* This transition is a CPU::step.
Stepping == last'.op = "cpuStep"

\* C18: whenever IME is set and pending = IF & IE & 0x1F is non-zero at an
\* instruction boundary, CPU::step services the lowest-numbered pending bit
\* before fetching an opcode: the bit is cleared in IF, IME is cleared, the
\* current PC is pushed, and PC becomes 0x40 + 8 * bit.
C18_ServicesPending ==
  [][Stepping /\ hist.ime /\ Pending(mem) # 0 => Serviced /\ ~hist'.ime]_vars

\* The previous step executed opcode.
After(opcode) == last.op = "cpuStep" /\ last.opcode = opcode

\* C19: with an interrupt pending and enabled, no interrupt is serviced by the
\* step that follows EI, one is serviced by the step after that, none is
\* serviced while IME is clear after DI, and one is serviced by the step that
\* follows RETI.
C19_EnableDelay ==
  [][Stepping /\ Pending(mem) # 0 =>
       /\ After(251) /\ ~hist.ime => ~Serviced
       /\ ~hist.ime /\ ~hist.enabling => ~Serviced
       /\ hist.ime /\ ~After(251) => Serviced
       /\ After(217) => Serviced]_vars

\* C20: after HALT executes, every CPU::step taken while IF & IE & 0x1F = 0
\* leaves PC and all registers unchanged and fetches no opcode; the first step
\* with IF & IE & 0x1F # 0 resumes execution.
C20_HaltWaits ==
  [][Stepping /\ hist.halted =>
       IF Pending(mem) = 0
       THEN cpu' = cpu /\ mem' = mem
       ELSE cpu' # cpu]_vars
\* C21: an opcode that has no implementation (0xD3, 0xDB, 0xDD, 0xE3, 0xE4,
\* 0xEB, 0xEC, 0xED, 0xF4, 0xFC, 0xFD, or 0xCB with any sub-opcode) behaves as
\* a NOP: registers, flags, SP and memory are unchanged, PC advances past the
\* opcode (and the CB sub-opcode byte) only, and the next step executes
\* normally (the INC A that follows increments A and advances PC by one).
C21_UnimplementedIsNop ==
  [][Stepping =>
       /\ last'.opcode \in UnimplementedOpcodes =>
             cpu' = [cpu EXCEPT !.pc = U16(@ + 1)] /\ mem' = mem
       /\ last'.opcode = 203 =>
             cpu' = [cpu EXCEPT !.pc = U16(@ + 2)] /\ mem' = mem
       /\ last.op = "cpuStep" /\ last.opcode \in UnimplementedOpcodes \cup {203}
             /\ last'.opcode = 60 =>
             /\ cpu'.a = U8(cpu.a + 1)
             /\ cpu'.pc = U16(cpu.pc + 1)
             /\ cpu'.sp = cpu.sp
             /\ mem' = mem]_vars

\* INC A has just run behind CB 37 (SWAP A on hardware), which changed nothing.
C21_Witness ==
  /\ last.op = "cpuStep"
  /\ last.opcode = 60
  /\ last.prev.op = "cpuStep"
  /\ last.prev.opcode = 203
  /\ ReadByte(mem, 257) = 55
  /\ last.was = [last.prev.was EXCEPT !.pc = 258]
  /\ last.was.f = 240
  /\ cpu.a = 91
  /\ cpu.pc = 259
-----------------------------------------------------------------------------
\* Cartridges on the bus: loadROM of files of several kinds, CPU writes to
\* every region, Memory::reset, CPU::reset and CPU::step.

MaxCartOps == 4

CartProgram == <<60, 4, 119>>

\* A 32 KiB ROM-only image and a 64 KiB ROM-only image.
RomOnlyImages ==
  {[Image(0, 0, 0, 2 * BankSize) EXCEPT !.prog = CartProgram],
   [Image(0, 1, 0, 4 * BankSize) EXCEPT !.prog = CartProgram]}

\* The RAM-size codes of the loader's table, and two it does not list.
RamCodes == {0, 1, 2, 3, 4, 5, 6, 255}

\* MBC1+RAM images with each RAM-size code; an MBC1 image with an unknown
\* ROM-size code, of one bank and of less than a bank; an image too short to
\* hold a header.
CartImages ==
  RomOnlyImages
    \cup {[Image(3, 1, c, 4 * BankSize) EXCEPT !.prog = CartProgram] : c \in RamCodes}
    \cup {Image(1, 9, 2, BankSize), Image(1, 9, 0, 8192), Image(1, 1, 3, 100)}

\* A path that does not open, an empty file, and the images.
CartFiles == {NoFile, File(NoImage)} \cup {File(img) : img \in CartImages}

\* CPU writes: the four MBC register ranges, video RAM and its bank select,
\* cartridge RAM, work RAM, OAM, the unusable area, an I/O register, high RAM
\* and IE.
CartWrites ==
  {<<0, 10>>, <<8192, 2>>, <<16384, 1>>, <<24576, 1>>, <<32767, 255>>,
   <<32768, 5>>, <<65359, 1>>, <<40960, 7>>, <<49152, 6>>, <<65024, 9>>,
   <<65184, 85>>, <<65279, 0>>, <<65281, 3>>, <<65408, 4>>, <<65535, 31>>}

CartLoad(file) ==
  /\ steps < MaxCartOps
  /\ mem' = LoadROM(mem, file)
  /\ last' = [op |-> "load", file |-> file, ok |-> LoadROMResult(file), was |-> mem]
  /\ steps' = steps + 1
  /\ UNCHANGED <<timer, ppu, joypad, cpu, trapped, hist>>

CartWrite(w) ==
  /\ steps < MaxCartOps
  /\ mem' = WriteByte(mem, w[1], w[2])
  /\ last' = [op |-> "write", addr |-> w[1], val |-> w[2], was |-> mem]
  /\ steps' = steps + 1
  /\ UNCHANGED <<timer, ppu, joypad, cpu, trapped, hist>>

CartMemoryReset ==
  /\ steps < MaxCartOps
  /\ mem' = MemoryReset(mem)
  /\ last' = [op |-> "memoryReset", was |-> mem]
  /\ steps' = steps + 1
  /\ UNCHANGED <<timer, ppu, joypad, cpu, trapped, hist>>

CartCpuReset ==
  /\ steps < MaxCartOps
  /\ cpu' = CPUReset
  /\ last' = [op |-> "cpuReset", was |-> cpu]
  /\ steps' = steps + 1
  /\ UNCHANGED <<mem, timer, ppu, joypad, trapped, hist>>

CartCpuStep ==
  /\ steps < MaxCartOps
  /\ RomBankDivisor(mem) # 0
  /\ LET s == CPUStep(mem, cpu)
     IN mem' = s[1] /\ cpu' = s[2]
  /\ last' = [op |-> "cpuStep", opcode |-> ReadByte(mem, cpu.pc), was |-> cpu]
  /\ steps' = steps + 1
  /\ UNCHANGED <<timer, ppu, joypad, trapped, hist>>

NextCart ==
  \/ \E file \in CartFiles : CartLoad(file)
  \/ \E w \in CartWrites : CartWrite(w)
  \/ CartMemoryReset
  \/ CartCpuReset
  \/ CartCpuStep

SpecCart == Constructed /\ [][NextCart]_vars

\* Every byte of a vector is 0.
AllZero(f) == \A k \in DOMAIN f : f[k] = 0

\* The RAM regions, the I/O page and IE hold zeros and the MBC registers have
\* their initial values.
BusCleared(m) ==
  /\ AllZero(m.vram0) /\ AllZero(m.vram1) /\ AllZero(m.wram)
  /\ AllZero(m.eram) /\ AllZero(m.oam) /\ AllZero(m.ioRegisters)
  /\ AllZero(m.hram) /\ m.ieRegister = 0
  /\ m.romBankLow = 1 /\ m.romBankHigh = 0 /\ m.bankingMode = 0
  /\ ~m.ramEnabled

\* C22: from any reachable state, reset leaves every VRAM, WRAM, external-RAM,
\* OAM, I/O and HRAM byte and IE equal to 0, the MBC state at bank-low = 1,
\* bank-high = 0, mode = 0, RAM-enable = false, the CPU registers at
\* A=F=B=C=D=E=H=L=0, SP=0xFFFE, PC=0x0100, and the ROM image and bank counts
\* unchanged.
C22_ResetState ==
  /\ last.op = "memoryReset" =>
        /\ BusCleared(mem)
        /\ mem.romData = last.was.romData
        /\ mem.numRomBanks = last.was.numRomBanks
        /\ mem.numRamBanks = last.was.numRamBanks
        /\ mem.eramSize = last.was.eramSize
        /\ mem.cartType = last.was.cartType
  /\ last.op = "cpuReset" =>
        /\ \A field \in RegisterFields \ {"sp"} : cpu[field] = 0
        /\ cpu.sp = 65534
        /\ cpu.pc = 256

\* Memory::reset has just cleared a cartridge RAM that was enabled and written.
C22_Witness ==
  /\ last.op = "memoryReset"
  /\ last.was.ramEnabled
  /\ ~AllZero(last.was.eram)
  /\ last.was.numRamBanks = 4
  /\ mem.numRamBanks = 4
  /\ AllZero(mem.eram)
\* The number of 8 KiB RAM banks a header declares with its RAM-size code.
DeclaredRamBanks(code) ==
  IF code = 2 THEN 1
  ELSE IF code = 3 THEN 4
  ELSE IF code = 4 THEN 16
  ELSE IF code = 5 THEN 8
  ELSE 0

\* The image has the 0x150 bytes of a header.
HasHeader(img) == img.size >= 336

\* C23: loading a zero-length image or an unreadable file returns failure;
\* loading any non-empty image returns success with bank count >= 1, external
\* RAM of exactly (header RAM bank count x 8 KiB) zero bytes, and the bus in
\* its reset state.
C23_Load ==
  last.op = "load" =>
    IF ~last.file.opens \/ last.file.image.size = 0
    THEN ~last.ok
    ELSE /\ last.ok
         /\ mem.numRomBanks >= 1
         /\ mem.eramSize =
              (IF HasHeader(last.file.image)
               THEN DeclaredRamBanks(last.file.image.ramCode) ELSE 0) * 8192
         /\ BusCleared(mem)
         /\ mem.romData = last.file.image

\* An image declaring 64 KiB of RAM (code 5) was loaded over an enabled,
\* written cartridge RAM.
C23_Witness ==
  /\ last.op = "load"
  /\ last.ok
  /\ last.file.image.ramCode = 5
  /\ last.was.ramEnabled
  /\ ~AllZero(last.was.eram)
  /\ mem.eramSize = 65536
  /\ AllZero(mem.eram)

\* Addresses read in the two ROM windows.
RomWindowReads == {0, 256, 16383, 16384, 20000, 32767}

UnusableAddrs == {65184, 65219, 65279}

\* C25: every read of an address in 0xFEA0-0xFEFF returns 0xFF in every
\* reachable state, and a write to such an address changes the value read at
\* no address.
C25_Unusable ==
  /\ \A a \in UnusableAddrs : ReadByte(mem, a) = 255
  /\ (last.op = "write" /\ last.addr >= 65184 /\ last.addr < 65280) =>
        mem = last.was

\* 0x55 has just been written to 0xFEA0 over a bus that holds other data.
C25_Witness ==
  /\ last.op = "write"
  /\ last.addr = 65184
  /\ last.val = 85
  /\ ~AllZero(mem.oam)
  /\ ReadByte(mem, 65184) = 255
-----------------------------------------------------------------------------
\* OAM DMA: CPU writes to 0xFF46 on a bus whose source regions hold data.

MaxDmaOps == 3

DmaImages ==
  {[Image(0, 0, 0, 2 * BankSize) EXCEPT !.prog = CartProgram],
   Image(3, 1, 3, 4 * BankSize)}

\* Data in work RAM (last source byte of page 0xC0 and the byte behind it,
\* and the first byte of the page), OAM and cartridge RAM, a ROM bank switch
\* and the cartridge RAM enable.
DmaFills ==
  {<<49152, 17>>, <<49311, 34>>, <<49312, 51>>, <<65183, 102>>,
   <<8192, 3>>, <<0, 10>>, <<40960, 153>>}

DmaLoad(img) ==
  /\ ~trapped
  /\ steps < MaxDmaOps
  /\ mem.romData = NoImage
  /\ mem' = LoadROM(mem, File(img))
  /\ last' = [op |-> "load"]
  /\ steps' = steps + 1
  /\ UNCHANGED <<timer, ppu, joypad, cpu, trapped, hist>>

DmaFill(w) ==
  /\ ~trapped
  /\ steps < MaxDmaOps
  /\ mem' = WriteByte(mem, w[1], w[2])
  /\ last' = [op |-> "write", addr |-> w[1], val |-> w[2]]
  /\ steps' = steps + 1
  /\ UNCHANGED <<timer, ppu, joypad, cpu, trapped, hist>>

\* writeByte(0xFF46, v), the last operation of a run.  Where the source page
\* lies in 0x4000-0x7FFF and the bank divisor is 0 the source reads evaluate
\* `bank % 0`: the write either completes (whatever bank results, the offset
\* is beyond the empty image and the byte read is 0xFF) ...
DmaWrite(v) ==
  /\ ~trapped
  /\ steps < MaxDmaOps
  /\ ReadUndefined(mem, v * 256) => mem.romData.size = 0
  /\ mem' = WriteByte(mem, 65350, v)
  /\ last' = [op |-> "dma", val |-> v]
  /\ steps' = MaxDmaOps
  /\ UNCHANGED <<timer, ppu, joypad, cpu, trapped, hist>>

\* ... or traps on the division.
DmaWriteTraps(v) ==
  /\ ~trapped
  /\ steps < MaxDmaOps
  /\ ReadUndefined(mem, v * 256)
  /\ trapped' = TRUE
  /\ last' = [op |-> "dmaTrap", val |-> v]
  /\ steps' = MaxDmaOps
  /\ UNCHANGED <<mem, timer, ppu, joypad, cpu, hist>>

NextDma ==
  \/ \E img \in DmaImages : DmaLoad(img)
  \/ \E w \in DmaFills : DmaFill(w)
  \/ \E v \in Bytes : DmaWrite(v)
  \/ \E v \in Bytes : DmaWriteTraps(v)

SpecDma == Constructed /\ [][NextDma]_vars

\* C26: for every byte V, a write of V to 0xFF46 makes, for every i in
\* 0..0x9F, the OAM byte at 0xFE00+i equal to the value that
\* readByte((V<<8)+i) returned just before the write, and changes no memory
\* other than OAM and the 0xFF46 register itself.
C26_DmaCopies ==
  [][last'.op = "dma" =>
       /\ \A i \in 0 .. 159 :
            ReadByte(mem', 65024 + i) = ReadByte(mem, last'.val * 256 + i)
       /\ mem' = [mem EXCEPT !.oam = mem'.oam,
                            !.ioRegisters = Put(@, 70, last'.val)]]_vars

\* A DMA from page 0xC0 has just copied the last byte of the page into the last
\* OAM byte, with data right behind the source page.
C26_Witness ==
  /\ last.op = "dma"
  /\ last.val = 192
  /\ ReadByte(mem, 49152) = 0
  /\ ReadByte(mem, 49311) = 34
  /\ ReadByte(mem, 49312) = 51
  /\ ReadByte(mem, 65024) = 0
  /\ ReadByte(mem, 65183) = 34
  /\ ReadByte(mem, 65350) = 192

(***************************************************************************)
(* The top-level stepper.  GameBoy::run is declared in core.h and has no   *)
(* body in the sources; its iteration is taken from the control-flow rule  *)
(* of the specification: CPU step, then Timer, PPU and APU advanced by the *)
(* instruction's cycle count.  CPU::step returns void, so the count is the *)
(* one the specification's timing gives the instructions used here.        *)
(***************************************************************************)
MaxRunOps == 6

\* NOP, EI and INC A each take 4 cycles.
InstructionCycles == 4

\* APU::step(cycles): the stub changes nothing.
APUStep(m, cycles) == m

RunInstrs == {0, 251, 60}

\* Three drawn instructions, then NOPs and a final INC A.
RunPrograms ==
  {<<i1, i2, i3, 0, 0, 60, 60>> : i1 \in RunInstrs, i2 \in RunInstrs, i3 \in RunInstrs}

\* The console after loadROM, reset and CPU writes to TIMA, TAC, LCDC and IE.
RunSetup(prog, tima, tac, lcdc, ie) ==
  LET loaded == LoadROM(MemoryCtor, File(ProgramImage(prog)))
      t == TimerResetMem(loaded)
      p == PPUReset(t)
  IN /\ mem = WriteByte(WriteByte(WriteByte(WriteByte(p[1], 65285, tima),
                                             65287, tac), 65344, lcdc),
                        65535, ie)
     /\ timer = TimerCtor
     /\ ppu = p[2]
     /\ joypad = JoypadCtor
     /\ cpu = CPUReset
     /\ last = [op |-> "setup"]
     /\ steps = 0
     /\ trapped = FALSE
     /\ hist = [elapsed |-> 0, ime |-> FALSE, enabling |-> FALSE,
                halted |-> FALSE]

RunInit ==
  \E prog \in RunPrograms, tima \in {0, 254, 255}, tac \in {0, 5},
     lcdc \in {0, 128}, ie \in {0, 4, 31} :
    RunSetup(prog, tima, tac, lcdc, ie)

\* One iteration of GameBoy::run: the CPU step, then the timer, the PPU and
\* the APU advanced by the cycle count.  last.raised holds the IF bits that
\* the advance of the timer and the PPU set.
GameBoyRun(n) ==
  \E s \in {CPUStep(mem, cpu)} :
  \E tr \in {TimerStepResult(s[1], timer, n)} :
  \E pr \in {PPUStep(tr[1], ppu, n)} :
    /\ mem' = APUStep(pr[1], n)
    /\ cpu' = s[2]
    /\ timer' = tr[2]
    /\ ppu' = pr[2]
    /\ last' = [op |-> "run", opcode |-> ReadByte(mem, cpu.pc), n |-> n,
                raised |-> BitAnd(ReadByte(pr[1], 65295),
                                  255 - ReadByte(s[1], 65295))]

RunIteration ==
  /\ steps < MaxRunOps
  /\ RomBankDivisor(mem) # 0
  /\ GameBoyRun(InstructionCycles)
  /\ hist' = [FlagsAfter(hist, ReadByte(mem, cpu.pc), Pending(mem))
                EXCEPT !.elapsed = IF LcdOn(mem) THEN @ + InstructionCycles
                                   ELSE 0]
  /\ steps' = steps + 1
  /\ UNCHANGED <<joypad, trapped>>

NextRun == RunIteration

SpecRun == RunInit /\ [][NextRun]_vars

\* C27: every iteration of the run loop executes one CPU instruction yielding
\* a cycle count n and then advances the Timer, the PPU and the APU by exactly
\* n; an IF bit set by the Timer or the PPU during that advance is acted on by
\* the CPU at the next instruction boundary (with IME set and the bit enabled
\* in IE the next iteration enters the interrupt's vector), and the
\* instruction of the current iteration is the one at its boundary's PC.
C27_RunIteration ==
  [][last'.op = "run" =>
       /\ timer'.divCounter = (timer.divCounter + last'.n) % 256
       /\ LcdOn(mem) => ppu'.dotCounter = (ppu.dotCounter + 4 * last'.n) % LineDots
       /\ last'.opcode = ReadByte(mem, cpu.pc)
       /\ (last.op = "run" /\ last.raised # 0 /\ hist.ime /\ Pending(mem) # 0)
            => /\ cpu'.pc = 64 + 8 * LowestBit(Pending(mem))
               /\ cpu'.sp = U16(cpu.sp - 2)]_vars

(***************************************************************************)
(* The PPU stepped one CPU cycle at a time with the LCD on, from reset,    *)
(* for more than a frame.  The initial states differ in the STAT and LYC   *)
(* bytes the CPU wrote.                                                    *)
(***************************************************************************)
MaxScanOps == 17800

\* STAT and LYC bytes written before the run.
ScanSetups == {<<0, 0>>, <<248, 143>>, <<123, 153>>, <<4, 200>>}

ScanSetup(stat, lyc) ==
  /\ mem = WriteByte(WriteByte(WriteByte(PPUReset(MemoryCtor)[1], 65344, 128),
                               65345, stat), 65349, lyc)
  /\ timer = TimerCtor
  /\ ppu = PPUCtor
  /\ joypad = JoypadCtor
  /\ cpu = CPUReset
  /\ last = [op |-> "setup"]
  /\ steps = 0
  /\ trapped = FALSE
  /\ hist = [elapsed |-> 0, ime |-> FALSE, enabling |-> FALSE, halted |-> FALSE]

ScanInit == \E s \in ScanSetups : ScanSetup(s[1], s[2])

\* ppu.step(1).
ScanStep ==
  /\ steps < MaxScanOps
  /\ LET r == PPUStep(mem, ppu, 1)
     IN mem' = r[1] /\ ppu' = r[2]
  /\ last' = [op |-> "scanStep", was |-> ppu]
  /\ hist' = [hist EXCEPT !.elapsed = IF LcdOn(mem) THEN @ + 1 ELSE 0]
  /\ steps' = steps + 1
  /\ UNCHANGED <<timer, joypad, cpu, trapped>>

NextScan == ScanStep

SpecScan == ScanInit /\ [][NextScan]_vars

\* The mode the claim gives a line and a dot.
ModeAt(line, dot) ==
  IF line >= 144 THEN 1
  ELSE IF dot < 80 THEN 2
  ELSE IF dot < 252 THEN 3
  ELSE 0

\* C28: with the LCD enabled and the PPU stepped one CPU cycle at a time, after
\* the n-th step the line is (n div 114) mod 154 and the dot is 4 * (n mod 114),
\* always in 0..455, and the mode read from STAT is 2 for dots 0..79, 3 for
\* dots 80..251 and 0 for dots 252..455 of the lines 0..143 and 1 on the lines
\* 144..153: each frame shows 2,3,0 exactly 144 times, then mode 1 for ten
\* lines, then mode 2 again with LY = 0.
C28_ModeSequence ==
  last.op = "scanStep" =>
    /\ ppu.dotCounter \in 0 .. 455
    /\ ppu.dotCounter = 4 * (hist.elapsed % 114)
    /\ ppu.ly = (hist.elapsed \div 114) % 154
    /\ LY = ppu.ly
    /\ StatMode = ModeAt(ppu.ly, ppu.dotCounter)

\* A whole frame has been stepped through: the PPU is back on line 0, dot 0,
\* with mode 2 in STAT, the step after the last dot of line 153 in mode 1.
C28_Witness ==
  /\ last.op = "scanStep"
  /\ hist.elapsed = 114 * 154
  /\ last.was.ly = 153 /\ last.was.dotCounter = 452 /\ last.was.mode = 1
  /\ LY = 0 /\ ppu.dotCounter = 0
  /\ StatMode = 2

\* C29: every PPU::step and every PPU::reset leaves bits 3-7 of STAT as they
\* were before the call; after the call bit 2 of STAT is set iff LYC equals
\* the PPU's current line, and bits 0-1 equal the PPU's current mode.
C29_StatBits ==
  [][last'.op \in {"ppuStep", "ppuReset"} =>
       /\ ReadByte(mem', 65345) \div 8 = ReadByte(mem, 65345) \div 8
       /\ Bit(ReadByte(mem', 65345), 2) = 1 <=> ReadByte(mem', 65349) = ppu'.ly
       /\ ReadByte(mem', 65345) % 4 = ppu'.mode]_vars

\* A step has just entered line 144 with LYC = 144 and STAT bits 3-6 set by
\* the CPU: the coincidence bit and mode 1 are published over them.
C29_Witness ==
  /\ last.op = "ppuStep"
  /\ ppu.ly = 144
  /\ last.was.ly = 143
  /\ ReadByte(mem, 65349) = 144
  /\ ReadByte(mem, 65345) = 120 + 4 + 1

\* C30: a CPU write of any value to 0xFF44 (LY) is ignored: the byte read at
\* 0xFF44 after the write is the PPU's current scanline, whatever was written.
C30_LyWriteIgnored ==
  [][last'.op = "write" /\ last'.addr = 65348 =>
       ReadByte(mem', 65348) = ppu'.ly]_vars

\* The register ranges of the cartridge.
InRange(a, lo, hi) == a >= lo /\ a <= hi

\* C31: for an MBC1 cartridge the bank-low register is always in 1..31 and the
\* bank-high register in 0..3; a write of v to 0x2000-0x3FFF sets bank-low to
\* v & 0x1F, or to 1 when that is 0, and changes no other register; a write
\* of v to 0x4000-0x5FFF sets bank-high to v & 3 only; a write of v to
\* 0x6000-0x7FFF sets the mode to v & 1 only.
C31_MbcRegisters ==
  [][mem'.cartType \in {1, 2, 3} =>
       /\ mem'.romBankLow \in 1 .. 31
       /\ mem'.romBankHigh \in 0 .. 3
       /\ last'.op = "write" =>
            LET v == last'.val IN
            /\ InRange(last'.addr, 8192, 16383) =>
                 mem' = [mem EXCEPT !.romBankLow =
                                      IF BitAnd(v, 31) = 0 THEN 1
                                      ELSE BitAnd(v, 31)]
            /\ InRange(last'.addr, 16384, 24575) =>
                 mem' = [mem EXCEPT !.romBankHigh = BitAnd(v, 3)]
            /\ InRange(last'.addr, 24576, 32767) =>
                 mem' = [mem EXCEPT !.bankingMode = BitAnd(v, 1)]]_vars

\* An MBC1 cartridge with bank-high 3 has just had 0x20 written to 0x2000: the
\* five low bits are 0 and bank-low is 1.
C31_Witness ==
  /\ mem.cartType = 1
  /\ last.op = "write" /\ last.addr = 8192 /\ last.val = 32
  /\ mem.romBankLow = 1
  /\ mem.romBankHigh = 3

(***************************************************************************)
(* The cartridge RAM of an MBC1 cartridge: CPU writes to the enable, bank  *)
(* and mode registers and to 0xA000-0xBFFF, and Memory::reset.  A run      *)
(* starts from a loaded image, as loaded or with the RAM enabled and two   *)
(* bytes written into its first bank.                                      *)
(***************************************************************************)
MaxEramOps == 3

\* MBC1+RAM+BATTERY images without RAM, with one RAM bank and with four.
EramImages == {Image(3, 1, c, 4 * BankSize) : c \in {0, 2, 3}}

\* Enables (0x0A, 0xFA), disables (0x00, 0xA0), bank-high, mode, cartridge
\* RAM and bank-low writes.
EramWrites ==
  {<<0, 10>>, <<8191, 250>>, <<0, 0>>, <<0, 160>>,
   <<16384, 1>>, <<16384, 3>>, <<24576, 1>>, <<24576, 0>>,
   <<40960, 34>>, <<49151, 51>>, <<8192, 5>>}

EramAddrs == {40960, 40961, 45000, 49151}

EramSetup(img, prepared) ==
  /\ mem = IF prepared
           THEN WriteByte(WriteByte(WriteByte(LoadROM(MemoryCtor, File(img)),
                                              0, 10), 40960, 17), 49151, 85)
           ELSE LoadROM(MemoryCtor, File(img))
  /\ timer = TimerCtor
  /\ ppu = PPUCtor
  /\ joypad = JoypadCtor
  /\ cpu = CPUReset
  /\ last = [op |-> "setup"]
  /\ steps = 0
  /\ trapped = FALSE
  /\ hist = [elapsed |-> 0, ime |-> FALSE, enabling |-> FALSE, halted |-> FALSE]

EramInit == \E img \in EramImages, prepared \in BOOLEAN : EramSetup(img, prepared)

EramWrite(w) ==
  /\ steps < MaxEramOps
  /\ mem' = WriteByte(mem, w[1], w[2])
  /\ last' = [op |-> "write", addr |-> w[1], val |-> w[2], was |-> mem]
  /\ steps' = steps + 1
  /\ UNCHANGED <<timer, ppu, joypad, cpu, trapped, hist>>

EramReset ==
  /\ steps < MaxEramOps
  /\ mem' = MemoryReset(mem)
  /\ last' = [op |-> "memoryReset", was |-> mem]
  /\ steps' = steps + 1
  /\ UNCHANGED <<timer, ppu, joypad, cpu, trapped, hist>>

NextEram ==
  \/ \E w \in EramWrites : EramWrite(w)
  \/ EramReset

SpecEram == EramInit /\ [][NextEram]_vars

\* C32: for an MBC1 cartridge the RAM-enable latch follows the writes to
\* 0x0000-0x1FFF (true iff the low nibble written is 0xA; no other write
\* changes it; reset clears it); while it is false, or the cartridge has no
\* RAM, reads of 0xA000-0xBFFF return 0xFF and writes there change nothing;
\* a write to 0x0000-0x1FFF changes nothing but the latch, so data written
\* while enabled is read back unchanged after a disable/enable cycle.
C32_RamEnable ==
  [][mem.cartType \in {1, 2, 3} =>
       /\ last'.op = "write" /\ InRange(last'.addr, 0, 8191) =>
            mem' = [mem EXCEPT !.ramEnabled = (BitAnd(last'.val, 15) = 10)]
       /\ last'.op = "write" /\ ~InRange(last'.addr, 0, 8191) =>
            mem'.ramEnabled = mem.ramEnabled
       /\ last'.op = "memoryReset" => ~mem'.ramEnabled
       /\ ~mem'.ramEnabled \/ mem'.numRamBanks = 0 =>
            \A a \in EramAddrs : ReadByte(mem', a) = 255
       /\ /\ ~mem.ramEnabled \/ mem.numRamBanks = 0
          /\ last'.op = "write" /\ InRange(last'.addr, 40960, 49151)
          => mem' = mem
       /\ /\ last.op = "write" /\ InRange(last.addr, 0, 8191)
          /\ last.was.ramEnabled /\ ~mem.ramEnabled /\ mem'.ramEnabled
          => \A a \in EramAddrs : ReadByte(mem', a) = ReadByte(last.was, a)]_vars

\* The RAM held 0x11 at 0xA000 and 0x55 at 0xBFFF, was disabled by a write of
\* 0xA0 and has just been enabled again by a write of 0xFA: both bytes read
\* as before, and read 0xFF in between.
C32_Witness ==
  /\ mem.numRamBanks > 0
  /\ last.op = "write" /\ last.addr = 8191 /\ last.val = 250
  /\ ~last.was.ramEnabled
  /\ ReadByte(last.was, 40960) = 255
  /\ mem.ramEnabled
  /\ ReadByte(mem, 40960) = 17
  /\ ReadByte(mem, 49151) = 85

\* The effective RAM bank of the claim: 0 in mode 0, bank-high modulo the
\* number of RAM banks in mode 1.
EffectiveRamBank(m) ==
  IF m.bankingMode = 0 THEN 0 ELSE m.romBankHigh % m.numRamBanks

\* C33: with the cartridge RAM enabled, a read of 0xA000+k returns the byte at
\* offset R * 0x2000 + k of the RAM (0xFF beyond its backing) and a write
\* stores there and nowhere else, where R is 0 in mode 0 and bank-high modulo
\* the RAM bank count in mode 1; so a byte written under one effective bank is
\* not altered by a write made under another.
C33_RamBanks ==
  [][/\ mem'.ramEnabled /\ mem'.numRamBanks > 0 =>
          \A a \in EramAddrs :
            LET off == EffectiveRamBank(mem') * 8192 + (a - 40960)
            IN ReadByte(mem', a) = IF off < mem'.eramSize
                                   THEN Get(mem'.eram, off) ELSE 255
     /\ /\ mem.ramEnabled /\ mem.numRamBanks > 0
        /\ last'.op = "write" /\ InRange(last'.addr, 40960, 49151)
        => LET off == EffectiveRamBank(mem) * 8192 + (last'.addr - 40960)
           IN /\ Get(mem'.eram, off) = last'.val
              /\ \A o \in (DOMAIN mem.eram) \cup (DOMAIN mem'.eram) :
                   o # off => Get(mem'.eram, o) = Get(mem.eram, o)]_vars

\* In mode 1 with bank-high 1 of four banks, 0x22 has just been written to
\* 0xA000: it is at offset 0x2000, and the 0x11 written to 0xA000 under bank 0
\* is still at offset 0.
C33_Witness ==
  /\ last.op = "write" /\ last.addr = 40960 /\ last.val = 34
  /\ mem.ramEnabled /\ mem.numRamBanks = 4
  /\ mem.bankingMode = 1 /\ mem.romBankHigh = 1
  /\ Get(mem.eram, 8192) = 34
  /\ Get(mem.eram, 0) = 17
  /\ ReadByte(mem, 40960) = 34

(***************************************************************************)
(* The divider register on the bus: Memory::incrementDIV, which counts it  *)
(* up through all 256 values, CPU writes of every byte to 0xFF04, which    *)
(* end a run, and CPU writes to other I/O registers.                       *)
(***************************************************************************)
MaxDivOps == 2

\* Writes to the I/O registers next to DIV (0xFF03, TIMA) and to IF.
DivFills == {<<65283, 9>>, <<65285, 77>>, <<65295, 4>>}

\* mem.incrementDIV(); the register wraps, so the calls need no bound.
DivIncrement ==
  /\ steps < MaxDivOps
  /\ mem' = IncrementDIV(mem)
  /\ last' = [op |-> "incrementDIV"]
  /\ UNCHANGED <<timer, ppu, joypad, cpu, steps, trapped, hist>>

DivFill(w) ==
  /\ steps < MaxDivOps
  /\ mem' = WriteByte(mem, w[1], w[2])
  /\ last' = [op |-> "write", addr |-> w[1], val |-> w[2]]
  /\ steps' = steps + 1
  /\ UNCHANGED <<timer, ppu, joypad, cpu, trapped, hist>>

\* mem.writeByte(0xFF04, v).
DivWrite(v) ==
  /\ steps < MaxDivOps
  /\ mem' = WriteByte(mem, 65284, v)
  /\ last' = [op |-> "write", addr |-> 65284, val |-> v, was |-> DIV]
  /\ steps' = MaxDivOps
  /\ UNCHANGED <<timer, ppu, joypad, cpu, trapped, hist>>

NextDiv ==
  \/ DivIncrement
  \/ \E w \in DivFills : DivFill(w)
  \/ \E v \in Bytes : DivWrite(v)

SpecDiv == Constructed /\ [][NextDiv]_vars

\* C34: for every byte v and every DIV value, after a CPU write of v to 0xFF04
\* a read of 0xFF04 returns 0, every other I/O register holds what it held
\* before, and nothing else in the memory has changed.
C34_DivWriteResets ==
  [][last'.op = "write" /\ last'.addr = 65284 =>
       /\ ReadByte(mem', 65284) = 0
       /\ \A k \in (DOMAIN mem.ioRegisters) \cup (DOMAIN mem'.ioRegisters) :
            k # 4 => Get(mem'.ioRegisters, k) = Get(mem.ioRegisters, k)
       /\ \A a \in {65283, 65285, 65295} : ReadByte(mem', a) = ReadByte(mem, a)
       /\ mem' = [mem EXCEPT !.ioRegisters = mem'.ioRegisters]]_vars

\* DIV stood at 200 and TIMA at 77 when 0x55 was written to 0xFF04: DIV reads
\* 0 and TIMA still 77.
C34_Witness ==
  /\ last.op = "write" /\ last.addr = 65284 /\ last.val = 85
  /\ last.was = 200
  /\ DIV = 0
  /\ TIMA = 77

\* C35: while TAC bit 2 is clear, a Timer::step leaves TIMA, TMA and IF as they
\* were and does not advance the TIMA accumulator, so the cycles of steps
\* taken while disabled never count towards a later TIMA increment.
C35_DisabledTimer ==
  [][last'.op = "timerStep" /\ Bit(TAC, 2) = 0 =>
       /\ ReadByte(mem', 65285) = TIMA
       /\ ReadByte(mem', 65286) = TMA
       /\ ReadByte(mem', 65295) = IFlags
       /\ timer'.timaCounter = timer.timaCounter]_vars

\* The timer ran 4 cycles with a 16-cycle period, was disabled, and has just
\* been stepped 1024 cycles: the accumulator still holds 4 and TIMA has not
\* moved.
C35_Witness ==
  /\ last.op = "timerStep" /\ last.cycles = 1024
  /\ TAC = 0
  /\ timer.timaCounter = 4
  /\ TIMA = 0
  /\ IFlags = 0

(***************************************************************************)
(* Conditional jumps: one CPU::step on a JR cc, JP cc or CALL cc drawn     *)
(* with its operand, the flags and the stack pointer, placed in ROM at     *)
(* 0x0100, in work RAM, or at the top of the address space where PC wraps. *)
(***************************************************************************)
MaxJumpOps == 1

JrOpcodes == {32, 40, 48, 56}
JpOpcodes == {194, 202, 210, 218}
CallOpcodes == {196, 204, 212, 220}

\* Where the instruction is placed.
JumpBases == {256, 49152, 65533}

\* Z and C clear or set, with N and H either way.
JumpFlags == {0, 128, 16, 144, 96}

\* JR offsets and JP/CALL targets, low byte first.
JumpOffsets == {0, 1, 2, 127, 128, 254, 255}
JumpTargets == {<<0, 0>>, <<52, 18>>, <<80, 1>>, <<255, 255>>}

\* Stack pointers in high RAM, work RAM, at the ROM boundary and at 0 and 1,
\* where the push wraps.
JumpStacks == {65534, 53248, 32769, 1, 0}

\* The code is in the ROM image when it sits at 0x0100 and written by the
\* CPU otherwise.
RECURSIVE Poke(_, _, _)
Poke(m, base, code) ==
  IF code = <<>> THEN m
  ELSE Poke(WriteByte(m, base, code[1]), U16(base + 1), Tail(code))

JumpSetup(base, code, sp, flags) ==
  /\ mem = IF base = 256 THEN LoadROM(MemoryCtor, File(ProgramImage(code)))
           ELSE Poke(LoadROM(MemoryCtor, File(ProgramImage(<<>>))), base, code)
  /\ timer = TimerCtor
  /\ ppu = PPUCtor
  /\ joypad = JoypadCtor
  /\ cpu = [BaseRegs EXCEPT !.pc = base, !.sp = sp, !.f = flags]
  /\ last = [op |-> "setup"]
  /\ steps = 0
  /\ trapped = FALSE
  /\ hist = [elapsed |-> 0, ime |-> FALSE, enabling |-> FALSE, halted |-> FALSE]

JumpInit ==
  \E base \in JumpBases, flags \in JumpFlags :
    \/ \E opcode \in JrOpcodes, e \in JumpOffsets :
         JumpSetup(base, <<opcode, e>>, 65534, flags)
    \/ \E opcode \in JpOpcodes, nn \in JumpTargets :
         JumpSetup(base, <<opcode, nn[1], nn[2]>>, 65534, flags)
    \/ \E opcode \in CallOpcodes, nn \in JumpTargets, sp \in JumpStacks :
         JumpSetup(base, <<opcode, nn[1], nn[2]>>, sp, flags)

JumpStep ==
  /\ steps < MaxJumpOps
  /\ RomBankDivisor(mem) # 0
  /\ LET s == CPUStep(mem, cpu)
     IN mem' = s[1] /\ cpu' = s[2]
  /\ last' = [op |-> "cpuStep", opcode |-> ReadByte(mem, cpu.pc), was |-> cpu]
  /\ steps' = steps + 1
  /\ UNCHANGED <<timer, ppu, joypad, trapped, hist>>

NextJump == JumpStep

SpecJump == JumpInit /\ [][NextJump]_vars

\* Whether condition cc of a conditional opcode (NZ, Z, NC, C by bits 3-4 of
\* the opcode) holds for flags f.
ConditionHolds(opcode, f) ==
  LET cc == (opcode \div 8) % 4
  IN CASE cc = 0 -> Bit(f, 7) = 0
       [] cc = 1 -> Bit(f, 7) = 1
       [] cc = 2 -> Bit(f, 4) = 0
       [] OTHER -> Bit(f, 4) = 1

\* C36: for JP cc,nn and CALL cc,nn, when the condition is false PC ends 3
\* past the opcode address and SP, the registers and memory are unchanged;
\* when it is true PC = nn and, for CALL, the address of the next instruction
\* (opcode address + 3) is written high byte first below SP, which decreases
\* by 2.  For JR cc,e PC ends at opcode address + 2 when the condition is
\* false and at (opcode address + 2 + signed e) mod 2^16 when it is true.
C36_ConditionalJumps ==
  [][last'.op = "cpuStep" =>
       LET at == cpu.pc
           opcode == ReadByte(mem, at)
           lo == ReadByte(mem, (at + 1) % 65536)
           hi == ReadByte(mem, (at + 2) % 65536)
           nn == hi * 256 + lo
           e == IF lo >= 128 THEN lo - 256 ELSE lo
           next == (at + 3) % 65536
           taken == ConditionHolds(opcode, cpu.f)
       IN /\ opcode \in JpOpcodes =>
               /\ cpu' = [cpu EXCEPT !.pc = IF taken THEN nn ELSE next]
               /\ mem' = mem
          /\ opcode \in CallOpcodes /\ ~taken =>
               /\ cpu' = [cpu EXCEPT !.pc = next]
               /\ mem' = mem
          /\ opcode \in CallOpcodes /\ taken =>
               /\ cpu' = [cpu EXCEPT !.pc = nn, !.sp = (cpu.sp + 65534) % 65536]
               /\ mem' = WriteByte(WriteByte(mem, (cpu.sp + 65535) % 65536,
                                             next \div 256),
                                   (cpu.sp + 65534) % 65536, next % 256)
               /\ StackInRam(cpu.sp) =>
                    /\ ReadByte(mem', (cpu.sp + 65535) % 65536) = next \div 256
                    /\ ReadByte(mem', (cpu.sp + 65534) % 65536) = next % 256
          /\ opcode \in JrOpcodes =>
               /\ cpu' = [cpu EXCEPT !.pc = IF taken
                                            THEN (at + 2 + e + 65536) % 65536
                                            ELSE (at + 2) % 65536]
               /\ mem' = mem]_vars

\* A JR C,+2 at 0xFFFD with the carry set has been taken: PC wrapped to
\* 0x0001.
C36_Witness ==
  /\ last.op = "cpuStep"
  /\ last.opcode = 56
  /\ last.was.pc = 65533
  /\ last.was.f = 16
  /\ ReadByte(mem, 65534) = 2
  /\ cpu.pc = 1

\* C38: a write to an I/O register in 0xFF00-0xFF7F other than the DMA
\* register 0xFF46 changes the value read from no VRAM, WRAM, echo, OAM or
\* HRAM address.
C38_IoWriteKeepsRam ==
  [][(/\ last'.op = "write"
      /\ InRange(last'.addr, 65280, 65407)
      /\ last'.addr # 65350) =>
       \A a \in RamAddrs \cup EchoAddrs : ReadByte(mem', a) = ReadByte(mem, a)]_vars

\* C40: a load that returns false after an earlier successful load leaves
\* every address reading the byte it read before, and leaves the bank counts,
\* the cartridge type and the MBC registers as they were.
C40_FailedLoadKeepsBus ==
  [][(/\ last'.op = "load"
      /\ ~last'.ok
      /\ mem.romData.size # 0) =>
       /\ \A a \in {0, 256, 257, 327, 16383} \cup RamAddrs :
            ReadByte(mem', a) = ReadByte(mem, a)
       /\ \A f \in {"numRomBanks", "numRamBanks", "cartType", "romBankLow",
                    "romBankHigh", "bankingMode", "ramEnabled"} :
            mem'[f] = mem[f]]_vars

(***************************************************************************)
(* The interrupt-flag register under the subsystems that raise requests:   *)
(* Timer::step, PPU::step, APU::step and Joypad::setButton, from states    *)
(* with the IF byte as the CPU wrote it, the timer one tick from overflow  *)
(* and the PPU at the start of a frame or on its last visible line.        *)
(***************************************************************************)
MaxIfOps == 2

IfBytes == {0, 31, 27, 30, 224, 255}

IfCycles == {4, 16, 114}

\* Cycles the PPU has run with the LCD on: none, or 143 scanlines.
IfFrames == {0, 114 * 143}

IfSetup(ifv, tac, lcdc, pre) ==
  \E p \in {PPUStep(WriteByte(MemoryCtor, 65344, 128), PPUCtor, pre)} :
    /\ mem = WriteByte(WriteByte(WriteByte(WriteByte(p[1], 65344, lcdc),
                                           65285, 255), 65287, tac),
                       65295, ifv)
    /\ timer = TimerCtor
    /\ ppu = p[2]
    /\ joypad = JoypadCtor
    /\ cpu = CPUReset
    /\ last = [op |-> "setup"]
    /\ steps = 0
    /\ trapped = FALSE
    /\ hist = [elapsed |-> pre, ime |-> FALSE, enabling |-> FALSE,
               halted |-> FALSE]

IfInit ==
  \E ifv \in IfBytes, tac \in {0, 5}, lcdc \in {0, 128}, pre \in IfFrames :
    IfSetup(ifv, tac, lcdc, pre)

IfTimerStep(cycles) ==
  /\ steps < MaxIfOps
  /\ \E r \in {TimerStepResult(mem, timer, cycles)} :
       mem' = r[1] /\ timer' = r[2]
  /\ last' = [op |-> "timerStep", cycles |-> cycles, was |-> IFlags]
  /\ steps' = steps + 1
  /\ UNCHANGED <<ppu, joypad, cpu, trapped, hist>>

IfPpuStep(cycles) ==
  /\ steps < MaxIfOps
  /\ \E r \in {PPUStep(mem, ppu, cycles)} :
       mem' = r[1] /\ ppu' = r[2]
  /\ last' = [op |-> "ppuStep", cycles |-> cycles, was |-> IFlags]
  /\ hist' = [hist EXCEPT !.elapsed = IF LcdOn(mem) THEN @ + cycles ELSE 0]
  /\ steps' = steps + 1
  /\ UNCHANGED <<timer, joypad, cpu, trapped>>

IfApuStep(cycles) ==
  /\ steps < MaxIfOps
  /\ mem' = APUStep(mem, cycles)
  /\ last' = [op |-> "apuStep", cycles |-> cycles, was |-> IFlags]
  /\ steps' = steps + 1
  /\ UNCHANGED <<timer, ppu, joypad, cpu, trapped, hist>>

IfSetButton(button, pressed) ==
  /\ steps < MaxIfOps
  /\ \E s \in {SetButton(mem, joypad, button, pressed)} :
       mem' = s[1] /\ joypad' = s[2]
  /\ last' = [op |-> "setButton", button |-> button, was |-> IFlags]
  /\ steps' = steps + 1
  /\ UNCHANGED <<timer, ppu, cpu, trapped, hist>>

NextIf ==
  \/ \E c \in IfCycles : IfTimerStep(c)
  \/ \E c \in IfCycles : IfPpuStep(c)
  \/ \E c \in IfCycles : IfApuStep(c)
  \/ \E b \in Buttons, pressed \in BOOLEAN : IfSetButton(b, pressed)

SpecIf == IfInit /\ [][NextIf]_vars

\* C37: Timer::step, PPU::step, APU::step and Joypad::setButton never clear a
\* bit of IF: every bit that was 1 before the call is 1 after it, and
\* setButton leaves the whole IF byte as it was.
C37_IfBitsKept ==
  [][last'.op \in {"timerStep", "ppuStep", "apuStep", "setButton"} =>
       /\ \A k \in 0 .. 7 :
            Bit(ReadByte(mem, 65295), k) = 1 => Bit(ReadByte(mem', 65295), k) = 1
       /\ last'.op = "setButton" => ReadByte(mem', 65295) = ReadByte(mem, 65295)]_vars

\* The PPU has just entered line 144 and requested VBlank with IF holding
\* 0x1E: all five bits are now set.
C37_Witness ==
  /\ last.op = "ppuStep"
  /\ last.was = 30
  /\ ppu.ly = 144
  /\ IFlags = 31


(***************************************************************************)
(* Cycle advances delivered in pieces: Timer::step and PPU::step called    *)
(* repeatedly with TAC, TMA and LCDC left alone, from states in which both *)
(* units have already run and hold leftover cycles.  `last` keeps the      *)
(* state the sequence started from and the cycles delivered to each unit.  *)
(***************************************************************************)
MaxSplitOps == 2

SplitCycles == {0, 1, 3, 13, 114, 500}

\* Cycles the timer has run before the sequence (TAC 5 or 4 running).
SplitTimerRuns == {0, 15, 1020}

\* Cycles the PPU has run before the sequence, LCD on: none, most of line 0,
\* most of line 143, most of line 153.
SplitPpuRuns == {0, 113, 114 * 143 + 100, 114 * 153 + 110}

SplitSetup(tac, tima, lcdc, trun, prun) ==
  \E t \in {TimerStepResult(WriteByte(WriteByte(MemoryCtor, 65344, 128),
                                      65287, IF tac = 0 THEN 5 ELSE tac),
                            TimerCtor, trun)} :
  \E p \in {PPUStep(t[1], PPUCtor, prun)} :
  \E m \in {WriteByte(WriteByte(WriteByte(WriteByte(WriteByte(
              p[1], 65344, lcdc), 65287, tac), 65286, 250), 65285, tima),
              65295, 224)} :
    /\ mem = m
    /\ timer = t[2]
    /\ ppu = p[2]
    /\ joypad = JoypadCtor
    /\ cpu = CPUReset
    /\ last = [op |-> "setup", mem |-> m, timer |-> t[2], ppu |-> p[2],
               timerCycles |-> 0, ppuCycles |-> 0, calls |-> 0]
    /\ steps = 0
    /\ trapped = FALSE
    /\ hist = [elapsed |-> prun, ime |-> FALSE, enabling |-> FALSE,
               halted |-> FALSE]

SplitInit ==
  \E tac \in {0, 4, 5}, tima \in {254, 255}, lcdc \in {0, 128},
     trun \in SplitTimerRuns, prun \in SplitPpuRuns :
    SplitSetup(tac, tima, lcdc, trun, prun)

SplitTimerStep(cycles) ==
  /\ steps < MaxSplitOps
  /\ \E r \in {TimerStepResult(mem, timer, cycles)} :
       mem' = r[1] /\ timer' = r[2]
  /\ last' = [last EXCEPT !.op = "timerStep", !.calls = @ + 1,
                          !.timerCycles = @ + cycles]
  /\ steps' = steps + 1
  /\ UNCHANGED <<ppu, joypad, cpu, trapped, hist>>

SplitPpuStep(cycles) ==
  /\ steps < MaxSplitOps
  /\ \E r \in {PPUStep(mem, ppu, cycles)} :
       mem' = r[1] /\ ppu' = r[2]
  /\ last' = [last EXCEPT !.op = "ppuStep", !.calls = @ + 1,
                          !.ppuCycles = @ + cycles]
  /\ hist' = [hist EXCEPT !.elapsed = IF LcdOn(mem) THEN @ + cycles ELSE 0]
  /\ steps' = steps + 1
  /\ UNCHANGED <<timer, joypad, cpu, trapped>>

NextSplit ==
  \/ \E c \in SplitCycles : SplitTimerStep(c)
  \/ \E c \in SplitCycles : SplitPpuStep(c)

SpecSplit == SplitInit /\ [][NextSplit]_vars

\* C39: with TAC, TMA and LCDC held constant, Timer::step calls that add up
\* to n cycles leave the same DIV, TIMA, IF and accumulators as one
\* Timer::step(n), and PPU::step calls that add up to n cycles leave the same
\* LY, STAT, IF, dot counter and VBlank latch as one PPU::step(n).
C39_SplitAdvance ==
  /\ (last.op = "timerStep" /\ last.ppuCycles = 0) =>
       LET whole == TimerStepResult(last.mem, last.timer, last.timerCycles)
       IN /\ \A a \in {65284, 65285, 65295} :
               ReadByte(mem, a) = ReadByte(whole[1], a)
          /\ timer = whole[2]
  /\ (last.op = "ppuStep" /\ last.timerCycles = 0) =>
       LET whole == PPUStep(last.mem, last.ppu, last.ppuCycles)
       IN /\ \A a \in {65348, 65345, 65295} :
               ReadByte(mem, a) = ReadByte(whole[1], a)
          /\ ppu.ly = whole[2].ly
          /\ ppu.dotCounter = whole[2].dotCounter
          /\ ppu.vblankTriggered = whole[2].vblankTriggered

\* Two PPU steps of 13 and 1 cycles from dot 400 of line 143 have carried the
\* PPU into line 144 with VBlank requested, as one step of 14 cycles does.
C39_Witness ==
  /\ last.op = "ppuStep"
  /\ last.calls = 2
  /\ last.timerCycles = 0
  /\ last.ppuCycles = 14
  /\ last.ppu.ly = 143
  /\ ppu.ly = 144
  /\ ppu.vblankTriggered
  /\ Bit(IFlags, 0) = 1

=============================================================================
